---- MODULE Spec2Model ----
(***************************************************************************)
(* A model of the UNM (TL1) protocol client of provisioning-assistant:      *)
(* the TL1 transport (one TCP socket behind a read/write lock, a           *)
(* cancellable Send that runs Cmd on a background goroutine), the UNM      *)
(* client on top of it (authenticated flag behind a mutex, the retry loop  *)
(* of execRetry / executeWithRetry, ensureConnection) and the              *)
(* provisioning sequence of OnuProvisioning.                               *)
(*                                                                         *)
(* Texts (responses, error messages) are sequences of tokens.  The token   *)
(* "EADD" stands for the literal "EADD=" of ErrorPattern, "sp" for a       *)
(* white-space character other than a line feed, "nl" for a line feed,     *)
(* "ILL" for the words "ILLEGAL SESSION", "ill" for "illegal session",     *)
(* "data" for a well-formed LST-OMDDM table and "x" for any other text.    *)
(***************************************************************************)
EXTENDS Integers, Sequences, FiniteSets

\* ------------------------------------------------------------------ bounds
NumCallers == 2      \* goroutines of the application that call the client
MaxCalls == 2        \* client operations started in one behaviour
MaxCancels == 1      \* contexts whose deadline fires in one behaviour
MaxLen == 4          \* longest response text of the response-scan check
MaxDataLines == 2    \* most data lines of an LST-OMDDM table
MaxExtraColumns == 1 \* most fields a data line has beyond RequiredColumns
MaxEmptyFields == 2  \* most empty fields in a data line
MaxListLines == 2    \* most lines of an LST-ONU response
NumSockets == 2      \* sockets the transport's process has at a time
MaxPending == 2      \* most bytes of one response, read or waiting to be read
MaxChunk == 2        \* most bytes one Read of the response returns
MaxReads == 3        \* most Reads of one readResponse
NumUsers == 1        \* chat users
NumThreads == 2      \* goroutines running the bot's handlers at a time
MaxAge == 45         \* minutes since its last update up to which a session is followed
ClockStep == 15      \* minutes that pass in one step of the clock

\* ------------------------------------------------------- program constants
MaxRetryAttempts == 3
ResultChanSize == 1  \* make(chan struct{...}, 1) in TL1Transport.Send
HeaderLines == 8
FooterLines == -2
RequiredColumns == 13
OnuColumns == 12     \* len(attrs) != 12 in processONULine
SessionTimeout == 30 \* 30*time.Minute in SessionService.GetSession
CpfLength == 11      \* len(cpf) == 11 in isValidCPFFormat

Callers == 1 .. NumCallers

\* -------------------------------------------------------------------- text
Tokens == {"EADD", "sp", "nl", "x", "ILL"}

RECURSIVE SeqsUpTo(_, _)
SeqsUpTo(S, n) ==
    IF n = 0 THEN {<<>>}
    ELSE LET shorter == SeqsUpTo(S, n - 1)
         IN  shorter \cup {Append(s, t) : s \in {u \in shorter : Len(u) = n - 1}, t \in S}

\* strings.ToLower, token by token
ToLower(s) == [i \in 1 .. Len(s) |-> IF s[i] = "ILL" THEN "ill" ELSE s[i]]

\* strings.Contains for a one-token needle
Contains(s, tok) == \E i \in 1 .. Len(s) : s[i] = tok

\* strings.TrimSpace: drops leading and trailing white space
IsSpace(t) == t \in {"sp", "nl"}

TrimSpace(s) ==
    LET keep == {i \in 1 .. Len(s) : ~IsSpace(s[i])}
    IN  IF keep = {} THEN <<>>
        ELSE LET lo == CHOOSE i \in keep : \A j \in keep : i <= j
                 hi == CHOOSE i \in keep : \A j \in keep : j <= i
             IN  SubSeq(s, lo, hi)

\* regexp "EADD=(.*)", FindStringSubmatch: the leftmost match; the group runs
\* to the end of the line, since "." matches no line feed.  <<>> when there is
\* no match, else <<whole match, group>>.
FindStringSubmatch(response) ==
    LET starts == {i \in 1 .. Len(response) : response[i] = "EADD"}
    IN  IF starts = {} THEN <<>>
        ELSE LET i == CHOOSE k \in starts : \A j \in starts : k <= j
                 nls == {k \in (i + 1) .. Len(response) : response[k] = "nl"}
                 e == IF nls = {} THEN Len(response)
                      ELSE (CHOOSE k \in nls : \A j \in nls : k <= j) - 1
             IN  <<SubSeq(response, i, e), SubSeq(response, i + 1, e)>>

\* ------------------------------------------------------------------ errors
\* An error value: its kind, the text it carries, and the command whose
\* wrapper names it.
NoCmd == <<"", "">>
Nil == [kind |-> "nil", text |-> <<>>, at |-> NoCmd]
Err(k, t, c) == [kind |-> k, text |-> t, at |-> c]

\* UNMClient.isResponseErr
isResponseErr(response) ==
    LET matches == FindStringSubmatch(response)
    IN  IF Len(matches) > 1 /\ TrimSpace(matches[2]) # <<>>
        THEN Err("server", TrimSpace(matches[2]), NoCmd)
        ELSE Nil

isIllegalSessionErrorCaseSensitive(err) ==
    IF err = Nil THEN FALSE ELSE Contains(err.text, "ill")

\* UNMClient.isIllegalSessionError
isIllegalSessionError(err) ==
    IF err = Nil THEN FALSE ELSE Contains(ToLower(err.text), "ill")

\* ---------------------------------------------------------------- commands
LOGIN == <<"LOGIN", "">>
LOGOUT == <<"LOGOUT", "">>
OnuInfoCommand == <<"LST-OMDDM", "">>
DeleteOnuCommand == <<"DEL-ONU", "">>
AddOnuCommand == <<"ADD-ONU", "">>
SetWanServiceCommand(portConfig) == <<"SET-WANSERVICE", portConfig>>
ActivateLanPortCommand == <<"ACT-LANPORT", "">>

\* configureWanServices: the selectors, in the order of the loop
portConfigs == <<"UPORT=1", "UPORT=2", "UPORT=3", "UPORT=4", "SSID=1", "SSID=5">>

\* The commands of one run of the operation of OnuProvisioning, in program
\* order: deleteONU, addONU, configureWanServices (one setWanService per
\* selector), activateLanPort.
ProvisioningCommands ==
    <<DeleteOnuCommand, AddOnuCommand>>
    \o [i \in 1 .. Len(portConfigs) |-> SetWanServiceCommand(portConfigs[i])]
    \o <<ActivateLanPortCommand>>

OpCommands(o) == IF o = "prov" THEN ProvisioningCommands ELSE <<OnuInfoCommand>>

AllCmds == {LOGIN, LOGOUT, OnuInfoCommand}
           \cup {ProvisioningCommands[i] : i \in 1 .. Len(ProvisioningCommands)}

\* --------------------------------------------------------- configuration
RequiredFields == <<"OltIP", "Serial", "Model", "Vlan", "PPPoEUser", "PPPoEPass">>
FieldNames == {RequiredFields[i] : i \in 1 .. Len(RequiredFields)}
Configs == [FieldNames -> {"", "v"}]

validateProvisioningConfigNoPass(config) ==
    IF config["OltIP"] = "" THEN Err("config", <<>>, <<"OltIP", "">>)
    ELSE IF config["Serial"] = "" THEN Err("config", <<>>, <<"Serial", "">>)
    ELSE IF config["Model"] = "" THEN Err("config", <<>>, <<"Model", "">>)
    ELSE IF config["Vlan"] = "" THEN Err("config", <<>>, <<"Vlan", "">>)
    ELSE IF config["PPPoEUser"] = "" THEN Err("config", <<>>, <<"PPPoEUser", "">>)
    ELSE Nil

\* UNMClient.validateProvisioningConfig
validateProvisioningConfig(config) ==
    IF config["OltIP"] = "" THEN Err("config", <<>>, <<"OltIP", "">>)
    ELSE IF config["Serial"] = "" THEN Err("config", <<>>, <<"Serial", "">>)
    ELSE IF config["Model"] = "" THEN Err("config", <<>>, <<"Model", "">>)
    ELSE IF config["Vlan"] = "" THEN Err("config", <<>>, <<"Vlan", "">>)
    ELSE IF config["PPPoEUser"] = "" THEN Err("config", <<>>, <<"PPPoEUser", "">>)
    ELSE IF config["PPPoEPass"] = "" THEN Err("config", <<>>, <<"PPPoEPass", "">>)
    ELSE Nil

\* ------------------------------------------------------ server responses
RespOk == <<"x">>
RespData == <<"data">>
RespIllegal == <<"EADD", "ILL">>
RespDenied == <<"EADD", "x">>

\* What the server may answer to a command.
Responses(cmd) ==
    IF cmd = OnuInfoCommand THEN {RespData, RespOk, RespIllegal, RespDenied}
    ELSE {RespOk, RespIllegal, RespDenied}

\* The outcome of TL1Transport.Cmd as Send returns it: a transport error
\* ("nil" when there is none) and the response text.
NoRes == [terr |-> "nil", text |-> <<>>]
TErr(e) == [terr |-> e, text |-> <<>>]
Answer(t) == [terr |-> "nil", text |-> t]

\* UNMClient.sendCommand, on what Send returned
sendCommand(res) ==
    IF res.terr # "nil" THEN Err(res.terr, <<>>, NoCmd)
    ELSE isResponseErr(res.text)

\* the "%w" wrappers of deleteONU, addONU, setWanService, ..., which name the step
Wrap(err, cmd) == IF err = Nil THEN Nil ELSE [err EXCEPT !.at = cmd]

\* UNMClient.buildONUInfoFromResponse, reduced to whether the text holds a
\* well-formed table
buildONUInfoFromResponse(text) ==
    IF Contains(text, "data") THEN Nil ELSE Err("format", <<>>, OnuInfoCommand)

\* ------------------------------------------------------------------- state
VARIABLES
    pc,         \* per caller: where it stands in the client code
    op,         \* per caller: the operation it runs ("none", "prov", "info", "close", "logout")
    attempt,    \* per caller: execRetry's loop variable
    pos,        \* per caller: index in OpCommands(op) of the command being sent
    lastErr,    \* per caller: execRetry's lastErr / the error being carried
    branch,     \* per caller: the branch of ensureConnection it took
    ctxDone,    \* per caller: the context of its call is done
    result,     \* per caller: what its last call returned
    g,          \* per caller: the goroutine of the Send it waits for
    orphans,    \* goroutines of Sends that returned on cancellation, per command and state
    calls,      \* operations started so far
    cancels,    \* contexts cancelled so far
    mtx,        \* UNMClient.mtx: 0, or the caller holding it
    connected,  \* UNMClient.connected, the authenticated flag
    mu,         \* TL1Transport.mu is write-locked by a Cmd between its write and its read
    conn,       \* TL1Transport.conn: "nil", "open", or "shut" (a socket closed locally)
    closed,     \* TL1Transport.closed
    loggedIn,   \* history: the server has accepted a LOGIN on the socket conn is now
    hist,       \* per caller, history: commands issued in the current run, runs,
                \* no-op Logouts in a row, the steps of the current
                \* ensureConnection, ...
    response,   \* the response under scan or under decoding (pure-function checks)
    scanned,    \* whether the response was scanned or decoded, and the outcome
    tl1,        \* the TL1Transport seen with its sockets: conn (0 is nil), closed
    sockets,    \* per socket: open on this side, what the peer did, bytes not yet read
    call,       \* the Cmd that holds the transport lock: its position, and history
    ret,        \* what the last call on the transport returned
    sessions,   \* SessionService.sessions: per user, its session (NoSession: no entry)
    smu,        \* SessionService.mu: the writer holding it (0: none) and its readers
    threads,    \* per handler goroutine: the session-store call it is in, and where
    crashed,    \* the Go runtime has detected a concurrent map access and stopped
    reply       \* per user: what the last handler run for the user sent to the chat

callerVars == <<pc, op, attempt, pos, lastErr, branch, ctxDone, result, g, hist>>
clientVars == <<mtx, connected>>
transportVars == <<mu, conn, closed, loggedIn>>
socketVars == <<tl1, sockets, call, ret>>
botVars == <<sessions, smu, threads, crashed, reply>>
scanVars == <<response, scanned, socketVars, botVars>>
vars == <<callerVars, orphans, calls, cancels, clientVars, transportVars, scanVars>>

NoG == [cmd |-> NoCmd, st |-> "none", res |-> NoRes]
OrphanKeys == AllCmds \X {"wait", "written", "blocked"}
\* sockets are told apart by a number; a socket that is closed on this side,
\* or was never opened, holds nothing
Sockets == 1 .. NumSockets
ClosedSocket == [open |-> FALSE, peer |-> "up", inbox |-> <<>>]
FreshSocket == [open |-> TRUE, peer |-> "up", inbox |-> <<>>]
NoCall == [pc |-> "none", acc |-> <<>>, probes |-> 0, dials |-> 0, writes |-> 0]
NoRet == [op |-> "none", val |-> "nil", text |-> <<>>, nth |-> 0]

\* the chat users and the goroutines that run the bot's handlers; a session
\* holds its State, the minutes since UpdatedAt, whether ConnectionInfo is set,
\* and (history) whether it passed the CPF validation since it was last idle
Users == 1 .. NumUsers
Threads == 1 .. NumThreads
NoSession == [State |-> "none", age |-> 0, authed |-> FALSE, info |-> FALSE]
NewSession == [State |-> "idle", age |-> 0, authed |-> FALSE, info |-> FALSE]
IdleThread == [op |-> "none", pc |-> "idle", user |-> 0]
NoLock == [w |-> 0, r |-> {}]

NoHist == [issued |-> <<>>, runs |-> 0, delFailed |-> FALSE, auth |-> "none", noop |-> 0,
           ens |-> <<>>, afterCancel |-> FALSE]

\* main.go: NewTransport dialled the socket; unm.New leaves connected false.
ProtocolInit ==
    /\ pc = [c \in Callers |-> "idle"]
    /\ op = [c \in Callers |-> "none"]
    /\ attempt = [c \in Callers |-> 0]
    /\ pos = [c \in Callers |-> 0]
    /\ lastErr = [c \in Callers |-> Nil]
    /\ branch = [c \in Callers |-> "none"]
    /\ ctxDone = [c \in Callers |-> FALSE]
    /\ result = [c \in Callers |-> Nil]
    /\ g = [c \in Callers |-> NoG]
    /\ hist = [c \in Callers |-> NoHist]
    /\ orphans = [k \in OrphanKeys |-> 0]
    /\ calls = 0
    /\ cancels = 0
    /\ mtx = 0
    /\ connected = FALSE
    /\ mu = FALSE
    /\ conn = "open"
    /\ closed = FALSE
    /\ loggedIn = FALSE
    /\ tl1 = [conn |-> 1, closed |-> FALSE]
    /\ sockets = [s \in Sockets |-> IF s = 1 THEN FreshSocket ELSE ClosedSocket]
    /\ call = NoCall
    /\ ret = NoRet
    /\ sessions = [u \in Users |-> NoSession]
    /\ smu = NoLock
    /\ threads = [t \in Threads |-> IdleThread]
    /\ crashed = FALSE
    /\ reply = [u \in Users |-> "nothing"]

Init ==
    /\ ProtocolInit
    /\ response = <<>>
    /\ scanned = <<FALSE, Nil>>

\* ----------------------------------------------------------------- helpers
\* go func() { t.Cmd(command) ... }: Send starts the goroutine and waits.
Spawn(c, cmd) == g' = [g EXCEPT ![c] = [cmd |-> cmd, st |-> "wait", res |-> NoRes]]

\* Send returned on ctx.Done(): its goroutine, unless it has finished, runs on.
Abandon(c) ==
    IF g[c].st \in {"wait", "written"}
    THEN orphans' = [orphans EXCEPT ![<<g[c].cmd, g[c].st>>] = @ + 1]
    ELSE UNCHANGED orphans

\* the call returns err to the application
Return(c, err) ==
    /\ pc' = [pc EXCEPT ![c] = "idle"]
    /\ op' = [op EXCEPT ![c] = "none"]
    /\ attempt' = [attempt EXCEPT ![c] = 0]
    /\ pos' = [pos EXCEPT ![c] = 0]
    /\ lastErr' = [lastErr EXCEPT ![c] = Nil]
    /\ branch' = [branch EXCEPT ![c] = "none"]
    /\ ctxDone' = [ctxDone EXCEPT ![c] = FALSE]
    /\ result' = [result EXCEPT ![c] = err]

\* fmt.Errorf("%w: %v", ErrMaxRetriesExceeded, lastErr)
MaxRetriesExceeded(err) == Err("max_retries", err.text, err.at)

\* execRetry: "lastErr = err; continue", then the loop header, then the return
\* after the loop.  Every attempt that does not return assigns lastErr before
\* it is read, so the value need not be kept from one attempt to the next.
Continue(c, err) ==
    IF attempt[c] + 1 < MaxRetryAttempts
    THEN /\ pc' = [pc EXCEPT ![c] = "ensure"]
         /\ attempt' = [attempt EXCEPT ![c] = @ + 1]
         /\ lastErr' = [lastErr EXCEPT ![c] = Nil]
         /\ branch' = [branch EXCEPT ![c] = "none"]
         /\ pos' = [pos EXCEPT ![c] = 0]
         /\ UNCHANGED <<op, ctxDone, result>>
    ELSE Return(c, MaxRetriesExceeded(err))

\* history: ensureConnection of caller c made the step s (kept for the
\* operations that run under execRetry); Forget drops the steps recorded
Did(c, s) ==
    IF op[c] \in {"prov", "info"} THEN [hist EXCEPT ![c].ens = Append(@, s)] ELSE hist

Forget(c) == [hist EXCEPT ![c].ens = <<>>]

LockNotTaken == TRUE

\* sync.RWMutex: Lock and RLock both wait for a write-locked mutex
LockFree == mu = FALSE

\* Send's select: with ctx done and resultChan empty it takes ctx.Done() at
\* once, so the goroutine of a Send whose context is done makes its further
\* steps after that Send returned (LoginCancel, OpCancel), as an orphan.  A
\* result that is already in resultChan when the context is done may still be
\* taken (LoginRecv, OpRecv): select chooses among the ready cases.
Awaited(c) == ~(ctxDone[c] /\ pc[c] \in {"op_wait", "login_wait"})

\* --------------------------------------------------------------- transport
\* TL1Transport.isConnectionAlive: "alive" (the 1-byte read timed out),
\* "notconn" (no socket) or "dead" (any other read outcome; a socket closed
\* locally always fails).  Whether the peer is still there is the server's choice.
isConnectionAlive ==
    IF conn = "nil" THEN {"notconn"}
    ELSE IF conn = "shut" THEN {"dead"}
    ELSE {"alive", "dead"}

IsConnectedOptimistic == {TRUE}

\* TL1Transport.IsConnected: the values it may return
IsConnected ==
    IF closed \/ conn = "nil" THEN {FALSE}
    ELSE {a = "alive" : a \in isConnectionAlive}

\* net.DialTimeout in TL1Transport.connect: it succeeds or fails
DialOutcomes == {"ok", "fail"}

\* TL1Transport.Cmd up to and including the write: the closed check,
\* ensureConnection (a failed probe re-dials once) and conn.Write.  Each outcome
\* gives the socket state it leaves and either "written" or the error returned.
CmdWriteOutcomes ==
    IF closed THEN {[conn |-> conn, closed |-> closed, terr |-> "notconn", dial |-> FALSE]}
    ELSE UNION {
        IF a = "notconn"
        THEN {[conn |-> conn, closed |-> closed, terr |-> "notconn", dial |-> FALSE]}
        ELSE IF a = "alive"
        THEN {[conn |-> conn, closed |-> closed, terr |-> e, dial |-> FALSE] :
                 e \in {"written", "io"}}
        ELSE {[conn |-> conn, closed |-> closed, terr |-> "io", dial |-> FALSE]}
             \cup {[conn |-> "open", closed |-> FALSE, terr |-> e, dial |-> TRUE] :
                      e \in {"written", "io"}}
        : a \in isConnectionAlive}

\* TL1Transport.readResponse: a response of the server, or a read error
CmdReadOutcomes(cmd) == {Answer(t) : t \in Responses(cmd)} \cup {TErr("io")}

\* the server's answer r to cmd is the acceptance of a LOGIN
Accepted(cmd, r) == cmd = LOGIN /\ r.terr = "nil" /\ isResponseErr(r.text) = Nil

\* The goroutine of caller c's Send takes the transport lock and writes.
CmdWrite(c) ==
    /\ g[c].st = "wait"
    /\ Awaited(c)
    /\ LockFree
    /\ \E o \in CmdWriteOutcomes :
        /\ conn' = o.conn
        /\ closed' = o.closed
        /\ loggedIn' = (loggedIn /\ ~o.dial)
        /\ IF o.terr = "written"
           THEN /\ mu' = TRUE
                /\ g' = [g EXCEPT ![c].st = "written"]
           ELSE /\ mu' = mu
                /\ g' = [g EXCEPT ![c].st = "done", ![c].res = TErr(o.terr)]
    /\ UNCHANGED <<pc, op, attempt, pos, lastErr, branch, ctxDone, result, hist,
                   orphans, calls, cancels, clientVars, scanVars>>

\* It reads the response, releases the lock and puts the result in resultChan.
CmdRead(c) ==
    /\ g[c].st = "written"
    /\ Awaited(c)
    /\ \E r \in CmdReadOutcomes(g[c].cmd) :
        /\ g' = [g EXCEPT ![c].st = "done", ![c].res = r]
        /\ loggedIn' = (loggedIn \/ Accepted(g[c].cmd, r))
    /\ mu' = FALSE
    /\ UNCHANGED <<pc, op, attempt, pos, lastErr, branch, ctxDone, result, hist,
                   orphans, calls, cancels, clientVars, conn, closed, scanVars>>

Unbuffered == FALSE

\* resultChan <- result, with no receiver left: the goroutine is the only
\* sender on its channel, so the send goes through iff the channel has a buffer.
ResultChanRoom == ResultChanSize > 0

\* A goroutine whose Send has returned delivers its result: it ends, or stays
\* blocked on the channel for ever.
Discard(cmd, st) ==
    IF ResultChanRoom
    THEN orphans' = [orphans EXCEPT ![<<cmd, st>>] = @ - 1]
    ELSE orphans' = [orphans EXCEPT ![<<cmd, st>>] = @ - 1, ![<<cmd, "blocked">>] = @ + 1]

\* The same two steps of a goroutine whose Send has returned on cancellation:
\* nobody receives its result.
OrphanWrite(cmd) ==
    /\ orphans[<<cmd, "wait">>] > 0
    /\ LockFree
    /\ \E o \in CmdWriteOutcomes :
        /\ conn' = o.conn
        /\ closed' = o.closed
        /\ loggedIn' = (loggedIn /\ ~o.dial)
        /\ IF o.terr = "written"
           THEN /\ mu' = TRUE
                /\ orphans' = [orphans EXCEPT ![<<cmd, "wait">>] = @ - 1,
                                              ![<<cmd, "written">>] = @ + 1]
           ELSE /\ mu' = mu
                /\ Discard(cmd, "wait")
    /\ UNCHANGED <<callerVars, calls, cancels, clientVars, scanVars>>

OrphanRead(cmd) ==
    /\ orphans[<<cmd, "written">>] > 0
    /\ Discard(cmd, "written")
    /\ \E r \in CmdReadOutcomes(cmd) : loggedIn' = (loggedIn \/ Accepted(cmd, r))
    /\ mu' = FALSE
    /\ UNCHANGED <<callerVars, calls, cancels, clientVars, conn, closed, scanVars>>

\* ------------------------------------------------------------------ client
\* history of a call that starts: whether the call before it ended with a
\* cancellation error
Fresh(c) == [NoHist EXCEPT !.afterCancel = (result[c].kind = "cancel")]

\* The application calls OnuProvisioning(ctx, config).
StartProvisioning(c, config) ==
    /\ pc[c] = "idle"
    /\ calls < MaxCalls
    /\ calls' = calls + 1
    /\ hist' = [hist EXCEPT ![c] = Fresh(c)]
    /\ LET err == validateProvisioningConfig(config)
       IN  IF err # Nil
           THEN Return(c, err)
           ELSE /\ pc' = [pc EXCEPT ![c] = "ensure"]
                /\ op' = [op EXCEPT ![c] = "prov"]
                /\ result' = [result EXCEPT ![c] = Nil]
                /\ UNCHANGED <<attempt, pos, lastErr, branch, ctxDone>>
    /\ UNCHANGED <<g, orphans, cancels, clientVars, transportVars, scanVars>>

\* The application calls OnuInfo(ctx, ...).
StartOnuInfo(c) ==
    /\ pc[c] = "idle"
    /\ calls < MaxCalls
    /\ calls' = calls + 1
    /\ hist' = [hist EXCEPT ![c] = Fresh(c)]
    /\ pc' = [pc EXCEPT ![c] = "ensure"]
    /\ op' = [op EXCEPT ![c] = "info"]
    /\ result' = [result EXCEPT ![c] = Nil]
    /\ UNCHANGED <<attempt, pos, lastErr, branch, ctxDone, g, orphans, cancels,
                   clientVars, transportVars, scanVars>>

\* The application calls Close().
StartClose(c) ==
    /\ pc[c] = "idle"
    /\ calls < MaxCalls
    /\ calls' = calls + 1
    /\ hist' = [hist EXCEPT ![c] = NoHist]
    /\ pc' = [pc EXCEPT ![c] = "close_lock"]
    /\ op' = [op EXCEPT ![c] = "close"]
    /\ result' = [result EXCEPT ![c] = Nil]
    /\ UNCHANGED <<attempt, pos, lastErr, branch, ctxDone, g, orphans, cancels,
                   clientVars, transportVars, scanVars>>

\* The application calls Logout(ctx); its context is never cancelled here.
StartLogout(c) ==
    /\ pc[c] = "idle"
    /\ calls < MaxCalls
    /\ calls' = calls + 1
    /\ hist' = [hist EXCEPT ![c] = [NoHist EXCEPT !.noop = hist[c].noop]]
    /\ pc' = [pc EXCEPT ![c] = "lo_isconn"]
    /\ op' = [op EXCEPT ![c] = "logout"]
    /\ result' = [result EXCEPT ![c] = Nil]
    /\ UNCHANGED <<attempt, pos, lastErr, branch, ctxDone, g, orphans, cancels,
                   clientVars, transportVars, scanVars>>

\* The deadline of the call's context passes, or the application cancels it.
Cancel(c) ==
    /\ op[c] \in {"prov", "info"}
    /\ ~ctxDone[c]
    /\ cancels < MaxCancels
    /\ cancels' = cancels + 1
    /\ ctxDone' = [ctxDone EXCEPT ![c] = TRUE]
    /\ UNCHANGED <<pc, op, attempt, pos, lastErr, branch, result, g, hist, orphans,
                   calls, clientVars, transportVars, scanVars>>

CloseLockKeepsFlag(c) ==
    /\ pc[c] = "close_lock"
    /\ mtx = 0
    /\ mtx' = c
    /\ connected' = connected
    /\ pc' = [pc EXCEPT ![c] = "lo_isconn"]
    /\ UNCHANGED <<op, attempt, pos, lastErr, branch, ctxDone, result, g, hist,
                   orphans, calls, cancels, transportVars, scanVars>>

\* Close: takes the mutex and enters close(), which clears the flag first.
CloseLock(c) ==
    /\ pc[c] = "close_lock"
    /\ mtx = 0
    /\ mtx' = c
    /\ connected' = FALSE
    /\ pc' = [pc EXCEPT ![c] = "lo_isconn"]
    /\ UNCHANGED <<op, attempt, pos, lastErr, branch, ctxDone, result, g, hist,
                   orphans, calls, cancels, transportVars, scanVars>>

EnsureLockUnlocked(c) ==
    /\ pc[c] = "ensure"
    /\ IF connected
       THEN /\ pc' = [pc EXCEPT ![c] = "op_start"]
            /\ hist' = [hist EXCEPT ![c].auth = "found"]
            /\ mtx' = mtx
       ELSE /\ pc' = [pc EXCEPT ![c] = "isconn"]
            /\ hist' = hist
            /\ mtx' = c
    /\ UNCHANGED <<op, attempt, pos, lastErr, branch, ctxDone, result, g, orphans,
                   calls, cancels, connected, transportVars, scanVars>>

\* ensureConnection: takes the mutex; returns nil at once when the flag is set.
EnsureLock(c) ==
    /\ pc[c] = "ensure"
    /\ mtx = 0
    /\ IF connected
       THEN /\ pc' = [pc EXCEPT ![c] = "op_start"]
            /\ hist' = [hist EXCEPT ![c].auth = "found"]
            /\ mtx' = mtx
       ELSE /\ pc' = [pc EXCEPT ![c] = "isconn"]
            /\ hist' = hist
            /\ mtx' = c
    /\ UNCHANGED <<op, attempt, pos, lastErr, branch, ctxDone, result, g, orphans,
                   calls, cancels, connected, transportVars, scanVars>>

EnsureIsConnectedNoClose(c) ==
    /\ pc[c] = "isconn"
    /\ LockFree
    /\ \E v \in IsConnected :
        /\ connected' = connected
        /\ branch' = [branch EXCEPT ![c] = IF v THEN "second" ELSE "first"]
        /\ pc' = [pc EXCEPT ![c] = "reconnect"]
    /\ UNCHANGED <<op, attempt, pos, lastErr, ctxDone, result, g, hist, orphans,
                   calls, cancels, mtx, transportVars, scanVars>>

\* ensureConnection: asks the transport whether it is connected; if it is,
\* enters close() (which clears the flag), else goes to reconnectAndLogin.
EnsureIsConnected(c) ==
    /\ pc[c] = "isconn"
    /\ LockFree
    /\ \E v \in IsConnected :
        IF v
        THEN /\ connected' = FALSE
             /\ branch' = [branch EXCEPT ![c] = "second"]
             /\ pc' = [pc EXCEPT ![c] = "lo_isconn"]
        ELSE /\ connected' = connected
             /\ branch' = [branch EXCEPT ![c] = "first"]
             /\ pc' = [pc EXCEPT ![c] = "reconnect"]
    /\ UNCHANGED <<op, attempt, pos, lastErr, ctxDone, result, g, hist, orphans,
                   calls, cancels, mtx, transportVars, scanVars>>

\* Logout: a no-op success when the transport is not connected, else sends
\* LOGOUT (close() passes context.Background(), which is never done).  Called
\* from close(), control goes on to transporter.Close(); called by the
\* application, the call returns.
LogoutIsConnected(c) ==
    /\ pc[c] = "lo_isconn"
    /\ LockFree
    /\ \E v \in IsConnected :
        IF v
        THEN /\ Spawn(c, LOGOUT)
             /\ pc' = [pc EXCEPT ![c] = "lo_wait"]
             /\ hist' = Did(c, "LOGOUT")
             /\ UNCHANGED <<op, attempt, pos, lastErr, branch, ctxDone, result>>
        ELSE /\ g' = g
             /\ IF op[c] = "logout"
                THEN /\ Return(c, Nil)
                     /\ hist' = [hist EXCEPT ![c].noop = @ + 1]
                ELSE /\ pc' = [pc EXCEPT ![c] = "tclose"]
                     /\ UNCHANGED <<op, attempt, pos, lastErr, branch, ctxDone, result, hist>>
    /\ UNCHANGED <<orphans, calls, cancels, clientVars, transportVars, scanVars>>

\* Logout returns: to the application; or to close(), which keeps its error
\* when called from Close and drops it when called from ensureConnection.
LogoutRecv(c) ==
    /\ pc[c] = "lo_wait"
    /\ g[c].st = "done"
    /\ g' = [g EXCEPT ![c] = NoG]
    /\ IF op[c] = "logout"
       THEN Return(c, Wrap(sendCommand(g[c].res), LOGOUT))
       ELSE /\ lastErr' = [lastErr EXCEPT ![c] =
                     IF op[c] = "close" THEN Wrap(sendCommand(g[c].res), LOGOUT) ELSE @]
            /\ pc' = [pc EXCEPT ![c] = "tclose"]
            /\ UNCHANGED <<op, attempt, pos, branch, ctxDone, result>>
    /\ UNCHANGED <<hist, orphans, calls, cancels, clientVars, transportVars, scanVars>>

\* conn.Close() in TL1Transport.Close: nil without a socket, an error on a
\* socket that was already closed on this side, else what the system reports
SocketCloseErr == Err("close", <<>>, NoCmd)

CloseOutcomes ==
    IF conn = "nil" THEN {Nil}
    ELSE IF conn = "shut" THEN {SocketCloseErr}
    ELSE {Nil, SocketCloseErr}

\* errors.Join of close(): a is Logout's error, b is transporter.Close()'s
Join(a, b) ==
    IF b = Nil THEN a
    ELSE IF a = Nil THEN b
    ELSE Err("joined", a.text, a.at)

TransportCloseLeavesOpen(c) ==
    /\ pc[c] = "tclose"
    /\ LockFree
    /\ closed' = closed
    /\ conn' = "nil"
    /\ loggedIn' = FALSE
    /\ IF op[c] = "close"
       THEN /\ mtx' = 0
            /\ \E e \in CloseOutcomes : Return(c, Join(lastErr[c], e))
            /\ hist' = [hist EXCEPT ![c].ens = <<"Close">>]
       ELSE /\ mtx' = mtx
            /\ pc' = [pc EXCEPT ![c] = "reconnect"]
            /\ hist' = Did(c, "close")
            /\ UNCHANGED <<op, attempt, pos, lastErr, branch, ctxDone, result>>
    /\ UNCHANGED <<g, orphans, calls, cancels, connected, mu, scanVars>>

CloseAbortsOnLogoutError(c) ==
    /\ pc[c] = "tclose"
    /\ LockFree
    /\ IF op[c] = "close" /\ lastErr[c] # Nil
       THEN /\ UNCHANGED <<conn, closed, loggedIn>>
            /\ mtx' = 0
            /\ Return(c, lastErr[c])
            /\ hist' = [hist EXCEPT ![c].ens = <<"Close">>]
       ELSE /\ closed' = TRUE
            /\ conn' = "nil"
            /\ loggedIn' = FALSE
            /\ IF op[c] = "close"
               THEN /\ mtx' = 0
                    /\ \E e \in CloseOutcomes : Return(c, Join(lastErr[c], e))
                    /\ hist' = [hist EXCEPT ![c].ens = <<"Close">>]
               ELSE /\ mtx' = mtx
                    /\ pc' = [pc EXCEPT ![c] = "reconnect"]
                    /\ hist' = Did(c, "close")
                    /\ UNCHANGED <<op, attempt, pos, lastErr, branch, ctxDone, result>>
    /\ UNCHANGED <<g, orphans, calls, cancels, connected, mu, scanVars>>

\* close(): transporter.Close(); then Close returns the errors of Logout and of
\* transporter.Close() joined, or ensureConnection drops them and goes on.
TransportClose(c) ==
    /\ pc[c] = "tclose"
    /\ LockFree
    /\ closed' = TRUE
    /\ conn' = "nil"
    /\ loggedIn' = FALSE
    /\ IF op[c] = "close"
       THEN /\ mtx' = 0
            /\ \E e \in CloseOutcomes : Return(c, Join(lastErr[c], e))
            /\ hist' = [hist EXCEPT ![c].ens = <<"Close">>]
       ELSE /\ mtx' = mtx
            /\ pc' = [pc EXCEPT ![c] = "reconnect"]
            /\ hist' = Did(c, "close")
            /\ UNCHANGED <<op, attempt, pos, lastErr, branch, ctxDone, result>>
    /\ UNCHANGED <<g, orphans, calls, cancels, connected, mu, scanVars>>

\* reconnectAndLogin: transporter.Reconnect() closes the socket it has and
\* dials; on success Login sends LOGIN, on failure ensureConnection fails.
Reconnect(c) ==
    /\ pc[c] = "reconnect"
    /\ LockFree
    /\ \E d \in DialOutcomes :
        IF d = "ok"
        THEN /\ conn' = "open"
             /\ closed' = FALSE
             /\ loggedIn' = FALSE
             /\ Spawn(c, LOGIN)
             /\ pc' = [pc EXCEPT ![c] = "login_wait"]
             /\ mtx' = mtx
             /\ hist' = Did(c, "dial")
             /\ UNCHANGED <<op, attempt, pos, lastErr, branch, ctxDone, result>>
        ELSE /\ conn' = IF conn = "nil" THEN "nil" ELSE "shut"
             /\ closed' = closed
             /\ loggedIn' = FALSE
             /\ g' = g
             /\ mtx' = 0
             /\ hist' = Forget(c)
             /\ Continue(c, Err("io", <<>>, <<"Reconnect", "">>))
    /\ UNCHANGED <<orphans, calls, cancels, connected, mu, scanVars>>

\* reconnectAndLogin after Login returned err; ensureConnection sets the flag
\* only on its second branch (line 246), the first returns nil without it.
LoginDone(c, err) ==
    /\ g' = [g EXCEPT ![c] = NoG]
    /\ IF err = Nil
       THEN /\ connected' = IF branch[c] = "second" THEN TRUE ELSE connected
            /\ mtx' = 0
            /\ pc' = [pc EXCEPT ![c] = "op_start"]
            /\ hist' = [hist EXCEPT ![c].auth = "login", ![c].ens = Append(@, "LOGIN")]
            /\ lastErr' = lastErr
       ELSE /\ connected' = connected
            /\ mtx' = mtx
            /\ pc' = [pc EXCEPT ![c] = "lf_close"]
            /\ hist' = [hist EXCEPT ![c].auth = "failed"]
            /\ lastErr' = [lastErr EXCEPT ![c] = err]
    /\ UNCHANGED <<op, attempt, pos, branch, ctxDone, result, calls, cancels,
                   transportVars, scanVars>>

LoginRecv(c) ==
    /\ pc[c] = "login_wait"
    /\ g[c].st = "done"
    /\ LoginDone(c, Wrap(sendCommand(g[c].res), LOGIN))
    /\ UNCHANGED orphans

\* Send's select takes ctx.Done(): Login fails with the cancellation error.
LoginCancel(c) ==
    /\ pc[c] = "login_wait"
    /\ ctxDone[c]
    /\ Abandon(c)
    /\ LoginDone(c, Err("cancel", <<>>, LOGIN))

LoginFailKeepsOpen(c) ==
    /\ pc[c] = "lf_close"
    /\ LockFree
    /\ closed' = closed
    /\ conn' = conn
    /\ loggedIn' = loggedIn
    /\ mtx' = 0
    /\ Continue(c, lastErr[c])
    /\ hist' = Forget(c)
    /\ UNCHANGED <<g, orphans, calls, cancels, connected, mu, scanVars>>

LoginFailCloseHoldingMutex(c) ==
    /\ pc[c] = "lf_close"
    /\ LockFree
    /\ closed' = TRUE
    /\ conn' = "nil"
    /\ loggedIn' = FALSE
    /\ mtx' = mtx
    /\ Continue(c, lastErr[c])
    /\ hist' = Forget(c)
    /\ UNCHANGED <<g, orphans, calls, cancels, connected, mu, scanVars>>

\* reconnectAndLogin: Login failed, so transporter.Close(); ensureConnection
\* returns the error and execRetry continues with its next attempt.
LoginFailClose(c) ==
    /\ pc[c] = "lf_close"
    /\ LockFree
    /\ closed' = TRUE
    /\ conn' = "nil"
    /\ loggedIn' = FALSE
    /\ mtx' = 0
    /\ Continue(c, lastErr[c])
    /\ hist' = Forget(c)
    /\ UNCHANGED <<g, orphans, calls, cancels, connected, mu, scanVars>>

\* --------------------------------------------------------------- operation
OnuProvisioningAbortOnDelete(p, err) ==
    IF err # Nil THEN [next |-> 0, err |-> Wrap(err, ProvisioningCommands[p])]
    ELSE IF p = Len(ProvisioningCommands) THEN [next |-> 0, err |-> Nil]
    ELSE [next |-> p + 1, err |-> Nil]

\* The closure OnuProvisioning passes to execRetry, after the command at
\* position p returned err: deleteONU's error is logged and dropped; any other
\* step's error ends the run; after activateLanPort the run ends with nil.
\* next = 0 means the closure returns err.
OnuProvisioning(p, err) ==
    IF p = 1 THEN [next |-> 2, err |-> Nil]
    ELSE IF err # Nil THEN [next |-> 0, err |-> Wrap(err, ProvisioningCommands[p])]
    ELSE IF p = Len(ProvisioningCommands) THEN [next |-> 0, err |-> Nil]
    ELSE [next |-> p + 1, err |-> Nil]

\* The closure OnuInfo passes to execRetry: one command, then the decoding.
OnuInfo(err, text) ==
    IF err # Nil THEN [next |-> 0, err |-> Wrap(err, OnuInfoCommand)]
    ELSE [next |-> 0, err |-> buildONUInfoFromResponse(text)]

Operation(o, p, err, text) ==
    IF o = "prov" THEN OnuProvisioning(p, err) ELSE OnuInfo(err, text)

execRetryAnyError(err) ==
    IF err = Nil THEN "return" ELSE "clear"

\* execRetry after operation(ctx) returned err: "return" it (nil included), or
\* "clear" the flag and go round the loop.
execRetry(err) ==
    IF err = Nil THEN "return"
    ELSE IF isIllegalSessionError(err) THEN "clear"
    ELSE "return"

\* ensureConnection returned nil: execRetry runs the operation, which sends
\* its first command.
OpStart(c) ==
    /\ pc[c] = "op_start"
    /\ pos' = [pos EXCEPT ![c] = 1]
    /\ Spawn(c, OpCommands(op[c])[1])
    /\ pc' = [pc EXCEPT ![c] = "op_wait"]
    /\ hist' = [hist EXCEPT ![c].runs = @ + 1,
                            ![c].issued = <<OpCommands(op[c])[1]>>,
                            ![c].delFailed = FALSE,
                            ![c].ens = <<>>]
    /\ UNCHANGED <<op, attempt, lastErr, branch, ctxDone, result, orphans, calls,
                   cancels, clientVars, transportVars, scanVars>>

\* The Send of the command at pos[c] returned (err, text): the operation sends
\* its next command, or returns and execRetry decides.
OpDone(c, err, text) ==
    LET r == Operation(op[c], pos[c], err, text)
        delFailed == IF op[c] = "prov" /\ pos[c] = 1 THEN err # Nil ELSE hist[c].delFailed
    IN  IF r.next # 0
        THEN /\ pos' = [pos EXCEPT ![c] = r.next]
             /\ Spawn(c, OpCommands(op[c])[r.next])
             /\ hist' = [hist EXCEPT ![c].issued = Append(@, OpCommands(op[c])[r.next]),
                                     ![c].delFailed = delFailed]
             /\ UNCHANGED <<pc, op, attempt, lastErr, branch, ctxDone, result>>
        ELSE /\ g' = [g EXCEPT ![c] = NoG]
             /\ hist' = hist
             /\ IF execRetry(r.err) = "clear"
                THEN /\ pc' = [pc EXCEPT ![c] = "clear"]
                     /\ lastErr' = [lastErr EXCEPT ![c] = r.err]
                     /\ UNCHANGED <<op, attempt, pos, branch, ctxDone, result>>
                ELSE Return(c, r.err)

OpRecv(c) ==
    /\ pc[c] = "op_wait"
    /\ g[c].st = "done"
    /\ OpDone(c, sendCommand(g[c].res), g[c].res.text)
    /\ UNCHANGED <<orphans, calls, cancels, clientVars, transportVars, scanVars>>

\* Send's select takes ctx.Done(): the command fails with the cancellation error.
OpCancel(c) ==
    /\ pc[c] = "op_wait"
    /\ ctxDone[c]
    /\ Abandon(c)
    /\ OpDone(c, Err("cancel", <<>>, NoCmd), <<>>)
    /\ UNCHANGED <<calls, cancels, clientVars, transportVars, scanVars>>

\* execRetry, illegal-session branch: clears the flag under the mutex, then
\* continues unless this was the last attempt.
ClearFlag(c) ==
    /\ pc[c] = "clear"
    /\ mtx = 0
    /\ connected' = FALSE
    /\ Continue(c, lastErr[c])
    /\ hist' = [hist EXCEPT ![c].auth = "none"]
    /\ UNCHANGED <<g, orphans, calls, cancels, mtx, transportVars, scanVars>>

\* ------------------------------------------------------------ specification
\* what a caller inside a call may do next
Step(c) ==
    \/ Cancel(c)
    \/ CloseLock(c)
    \/ EnsureLock(c)
    \/ EnsureIsConnected(c)
    \/ LogoutIsConnected(c)
    \/ LogoutRecv(c)
    \/ TransportClose(c)
    \/ Reconnect(c)
    \/ LoginRecv(c)
    \/ LoginCancel(c)
    \/ LoginFailClose(c)
    \/ OpStart(c)
    \/ OpRecv(c)
    \/ OpCancel(c)
    \/ ClearFlag(c)
    \/ CmdWrite(c)
    \/ CmdRead(c)

Orphan ==
    \/ \E cmd \in AllCmds : OrphanWrite(cmd)
    \/ \E cmd \in AllCmds : OrphanRead(cmd)

\* One caller: the application calls the client from one goroutine, one
\* operation after the other; the goroutines of cancelled Sends run beside it.
Next ==
    \/ \E config \in Configs : StartProvisioning(1, config)
    \/ StartOnuInfo(1)
    \/ StartClose(1)
    \/ StartLogout(1)
    \/ Step(1)
    \/ Orphan

Spec == Init /\ [][Next]_vars

\* Several callers share the client and call OnuInfo, Logout and Close
\* concurrently.
NextConc ==
    \/ \E c \in Callers : StartOnuInfo(c)
    \/ \E c \in Callers : StartClose(c)
    \/ \E c \in Callers : StartLogout(c)
    \/ \E c \in Callers : Step(c)
    \/ Orphan

SpecConc == Init /\ [][NextConc]_vars

\* What the program itself does for caller c, without the server answering
\* (CmdRead) and without the deadline passing (Cancel): the Go scheduler runs
\* every runnable goroutine, and a sync.Mutex is handed to a waiting goroutine.
Runnable(c) ==
    \/ CloseLock(c)
    \/ EnsureLock(c)
    \/ EnsureIsConnected(c)
    \/ LogoutIsConnected(c)
    \/ LogoutRecv(c)
    \/ TransportClose(c)
    \/ Reconnect(c)
    \/ LoginRecv(c)
    \/ LoginCancel(c)
    \/ LoginFailClose(c)
    \/ OpStart(c)
    \/ OpRecv(c)
    \/ OpCancel(c)
    \/ ClearFlag(c)
    \/ CmdWrite(c)

\* The single-caller program under fair scheduling.  Nothing makes the server
\* answer: readResponse sets no read deadline.
Fairness ==
    /\ WF_vars(Runnable(1))
    /\ WF_vars(\E cmd \in AllCmds : OrphanWrite(cmd))

SpecLive == Init /\ [][Next]_vars /\ Fairness

\* What the program and a server that answers do for caller c while its
\* context is not done.
Proceeds(c) ==
    \/ CloseLock(c)
    \/ EnsureLock(c)
    \/ EnsureIsConnected(c)
    \/ LogoutIsConnected(c)
    \/ LogoutRecv(c)
    \/ TransportClose(c)
    \/ Reconnect(c)
    \/ LoginRecv(c)
    \/ LoginFailClose(c)
    \/ OpStart(c)
    \/ OpRecv(c)
    \/ ClearFlag(c)
    \/ CmdWrite(c)
    \/ CmdRead(c)

\* The first caller calls OnuInfo, with a context that is never cancelled, and
\* the other callers call Close beside it.
NextLocks ==
    \/ StartOnuInfo(1)
    \/ \E c \in Callers \ {1} : StartClose(c)
    \/ \E c \in Callers : Proceeds(c)

\* Fair scheduling, and a server that answers every command written:
\* sync.Mutex hands the lock to a goroutine that has waited (starvation mode),
\* and sync.RWMutex queues its writers on such a mutex, so a caller that is
\* again and again able to take a lock takes it.
FairLocks == \A c \in Callers : SF_vars(Proceeds(c))

SpecLocks == Init /\ [][NextLocks]_vars /\ FairLocks

\* The response scan on its own: every text up to MaxLen tokens is what Send
\* returned, and sendCommand scans it.
ScanInit ==
    /\ ProtocolInit
    /\ response \in SeqsUpTo(Tokens, MaxLen)
    /\ scanned = <<FALSE, Nil>>

Scan ==
    /\ scanned[1] = FALSE
    /\ scanned' = <<TRUE, sendCommand(Answer(response))>>
    /\ UNCHANGED <<response, callerVars, orphans, calls, cancels, clientVars, transportVars,
                   socketVars, botVars>>

NextScan == Scan

SpecScan == ScanInit /\ [][NextScan]_vars

\* --------------------------------------------------- optical-info decoding
\* A table is a sequence of lines, a line the sequence of its tab-separated
\* fields (strings.Split(line, "\t")); a field is 0 when it is the empty
\* string, else a number that tells it from the other fields of its line.  A
\* line <<0>> is an empty line.

\* strings.TrimSpace on a line: leading and trailing tabs go with the white
\* space, so empty fields at either end of the line go; an all-empty line
\* becomes the empty string, <<>>
TrimLine(line) ==
    LET keep == {i \in 1 .. Len(line) : line[i] # 0}
    IN  IF keep = {} THEN <<>>
        ELSE LET lo == CHOOSE i \in keep : \A j \in keep : i <= j
                 hi == CHOOSE i \in keep : \A j \in keep : j <= i
             IN  SubSeq(line, lo, hi)

\* splitAndTrimLines: the trimmed lines that are not empty, in order
RECURSIVE splitAndTrimLines(_)
splitAndTrimLines(input) ==
    IF input = <<>> THEN <<>>
    ELSE LET trimmedLine == TrimLine(Head(input))
         IN  IF trimmedLine # <<>>
             THEN <<trimmedLine>> \o splitAndTrimLines(Tail(input))
             ELSE splitAndTrimLines(Tail(input))

\* UNMClient.parseResponseLines: <<error, lines>>
parseResponseLines(input, minLines) ==
    LET lines == splitAndTrimLines(input)
    IN  IF Len(lines) <= minLines THEN <<"insufficient", <<>>>> ELSE <<"nil", lines>>

\* UNMClient.buildONUInfoFromResponse on a table.  The slice expression
\* lines[HeaderLines : len(lines)+FooterLines] panics when its high bound is
\* below its low bound.
buildONUInfo(input) ==
    LET parsed == parseResponseLines(input, HeaderLines)
        lines == parsed[2]
        high == Len(lines) + FooterLines
    IN  IF parsed[1] # "nil" THEN [kind |-> "insufficient", items |-> <<>>]
        ELSE IF high < HeaderLines THEN [kind |-> "panic", items |-> <<>>]
        ELSE LET resultLine == SubSeq(lines, HeaderLines + 1, high)
             IN  IF Len(resultLine) = 0 THEN [kind |-> "insufficient", items |-> <<>>]
                 ELSE LET items == resultLine[1]
                      IN  IF Len(items) < RequiredColumns
                          THEN [kind |-> "columns", items |-> <<>>]
                          ELSE [kind |-> "ok", items |-> SubSeq(items, 1, RequiredColumns)]

\* The data lines a table may start with: 1 field, or RequiredColumns - 1 to
\* RequiredColumns + MaxExtraColumns fields, up to MaxEmptyFields of them empty.
FirstDataLines ==
    {[i \in 1 .. n |-> IF i \in E THEN 0 ELSE i] :
        n \in {1} \cup ((RequiredColumns - 1) .. (RequiredColumns + MaxExtraColumns)),
        E \in {F \in SUBSET (1 .. (RequiredColumns + MaxExtraColumns)) :
                  Cardinality(F) <= MaxEmptyFields}}

\* The tables: header lines, an optional empty line, data lines, footer lines.
Tables ==
    [header : 0 .. HeaderLines,
     blank : BOOLEAN,
     first : FirstDataLines,
     data : 0 .. MaxDataLines,
     footer : 0 .. 2]

Repeat(line, n) == [i \in 1 .. n |-> line]

\* the lines of a table as the server sends them
TableLines(t) ==
    Repeat(<<1>>, t.header)
    \o (IF t.blank THEN <<<<0>>>> ELSE <<>>)
    \o (IF t.data > 0 THEN <<t.first>> \o Repeat(<<1, 2>>, t.data - 1) ELSE <<>>)
    \o Repeat(<<1>>, t.footer)

InfoInit ==
    /\ ProtocolInit
    /\ response \in Tables
    /\ scanned = <<FALSE, Nil>>

\* OnuInfo decodes the response of LST-OMDDM
DecodeInfo ==
    /\ scanned[1] = FALSE
    /\ scanned' = <<TRUE, buildONUInfo(TableLines(response))>>
    /\ UNCHANGED <<response, callerVars, orphans, calls, cancels, clientVars, transportVars,
                   socketVars, botVars>>

NextInfo == DecodeInfo

SpecInfo == InfoInit /\ [][NextInfo]_vars

\* ------------------------------------------------------- ONU-list decoding
\* Here a line is the sequence of its tab-separated fields and a field is a
\* text: a sequence of tokens, "sp" a blank, "OLTID" the header token, "ILL"
\* and "ill" the same word in upper and in lower case, "w1", "w2", ... other
\* words.

Words == <<"w1", "w2", "w3", "w4", "w5", "w6", "w7", "w8", "w9", "w10", "w11", "w12",
           "w13", "w14", "w15">>

IsBlank(field) == \A i \in 1 .. Len(field) : IsSpace(field[i])

\* strings.TrimSpace on a line of text fields: blank fields at either end go
\* with their tabs, and the outermost fields left lose their outer blanks
TrimSpaceLine(line) ==
    LET keep == {i \in 1 .. Len(line) : ~IsBlank(line[i])}
    IN  IF keep = {} THEN <<>>
        ELSE LET lo == CHOOSE i \in keep : \A j \in keep : i <= j
                 hi == CHOOSE i \in keep : \A j \in keep : j <= i
                 first == line[lo]
                 last == line[hi]
                 lead == CHOOSE k \in 1 .. Len(first) :
                            ~IsSpace(first[k]) /\ \A j \in 1 .. (k - 1) : IsSpace(first[j])
                 trail == CHOOSE k \in 1 .. Len(last) :
                            ~IsSpace(last[k]) /\ \A j \in (k + 1) .. Len(last) : IsSpace(last[j])
             IN  IF lo = hi THEN <<TrimSpace(first)>>
                 ELSE <<SubSeq(first, lead, Len(first))>>
                      \o SubSeq(line, lo + 1, hi - 1)
                      \o <<SubSeq(last, 1, trail)>>

\* strings.Contains(haystack, needle) for a needle of at most one token
ContainsText(haystack, needle) ==
    IF needle = <<>> THEN TRUE ELSE Contains(haystack, needle[1])

\* UNMClient.matchesFilter
matchesFilter(name, desc, filter) ==
    LET lowerFilter == ToLower(filter)
        lowerName == ToLower(name)
        lowerDesc == ToLower(desc)
    IN  ContainsText(lowerName, lowerFilter) \/ ContainsText(lowerDesc, lowerFilter)

\* UNMClient.createONUFromAttributes: every attribute trimmed, in order
createONUFromAttributes(attrs) == [i \in 1 .. Len(attrs) |-> TrimSpace(attrs[i])]

\* UNMClient.processONULine: <<>> when the line is skipped, else <<the record>>
processONULine(line, filter) ==
    LET attrs == line
    IN  IF Len(attrs) # OnuColumns \/ attrs[1] = <<"OLTID">> THEN <<>>
        ELSE IF filter # <<>> /\ ~matchesFilter(attrs[4], attrs[5], filter) THEN <<>>
        ELSE <<createONUFromAttributes(attrs)>>

\* UNMClient.buildONUsFromResponse: the records of the lines, in order; its
\* error is always nil
RECURSIVE buildONUsFromResponse(_, _)
buildONUsFromResponse(lines, filter) ==
    IF lines = <<>> THEN <<>>
    ELSE LET trimmedLine == TrimSpaceLine(Head(lines))
         IN  (IF trimmedLine # <<>> THEN processONULine(trimmedLine, filter) ELSE <<>>)
             \o buildONUsFromResponse(Tail(lines), filter)

\* The lines of an LST-ONU response: OnuColumns fields, or up to
\* MaxExtraColumns fewer or more; the first field a word, empty or the header
\* token; name and description with or without the word of the filter; the
\* last field a word or empty; every other field a word of its own.
OnuLines ==
    {[i \in 1 .. n |->
        IF i = 1 THEN first
        ELSE IF i = n THEN last
        ELSE IF i = 4 THEN name
        ELSE IF i = 5 THEN desc
        ELSE <<Words[i]>>] :
        n \in (OnuColumns - MaxExtraColumns) .. (OnuColumns + MaxExtraColumns),
        first \in {<<"w1">>, <<>>, <<"OLTID">>},
        name \in {<<"w4">>, <<"sp", "ILL">>},
        desc \in {<<"w5">>, <<"ill">>},
        last \in {<<"w">>, <<>>}}
    \cup {<<<<>>>>}

Filters == {<<>>, <<"ill">>, <<"ILL">>}

ListInit ==
    /\ ProtocolInit
    /\ response \in [lines : SeqsUpTo(OnuLines, MaxListLines), filter : Filters]
    /\ scanned = <<FALSE, Nil>>

\* FindAllOpticalNetworkUnits decodes the response of LST-ONU
DecodeList ==
    /\ scanned[1] = FALSE
    /\ scanned' = <<TRUE, [kind |-> "nil",
                           onus |-> buildONUsFromResponse(response.lines, response.filter)]>>
    /\ UNCHANGED <<response, callerVars, orphans, calls, cancels, clientVars, transportVars,
                   socketVars, botVars>>

NextList == DecodeList

SpecList == ListInit /\ [][NextList]_vars

\* ---------------------------------------------------------- response read
\* The bytes of the socket are tokens: ";" the CommandTerminator, "sp" a
\* white-space byte, "x" any other byte.  One reader.Read returns a chunk of
\* bytes (kind "data"), io.EOF (kind "eof") or another error (kind "err").
Bytes == {"x", ";", "sp"}
Chunks == SeqsUpTo(Bytes, MaxChunk)
Data(chunk) == [kind |-> "data", chunk |-> chunk]
EOF == [kind |-> "eof", chunk |-> <<>>]
ReadErr == [kind |-> "err", chunk |-> <<>>]
ReadOutcomes == {Data(chunk) : chunk \in Chunks} \cup {EOF, ReadErr}

TerminatedAnywhere(chunk) == Contains(chunk, ";")

\* strings.HasSuffix(strings.TrimSpace(chunk), CommandTerminator)
Terminated(chunk) ==
    LET trimmed == TrimSpace(chunk)
    IN  trimmed # <<>> /\ trimmed[Len(trimmed)] = ";"

\* readResponse after its loop: the accumulated text, or ErrInvalidResponse
readResult(acc) ==
    IF acc = <<>> THEN [done |-> TRUE, acc |-> <<>>, val |-> "invalid", text |-> <<>>]
    ELSE [done |-> TRUE, acc |-> acc, val |-> "nil", text |-> acc]

\* One round of the loop of readResponse, on what reader.Read returned: the
\* loop goes on (done is FALSE) or readResponse returns (val, text).
readRound(acc, r) ==
    IF r.kind = "err" THEN [done |-> TRUE, acc |-> acc, val |-> "io", text |-> <<>>]
    ELSE IF r.kind = "eof" THEN readResult(acc)
    ELSE IF Terminated(r.chunk) THEN readResult(acc \o r.chunk)
    ELSE [done |-> FALSE, acc |-> acc \o r.chunk, val |-> "nil", text |-> <<>>]

\* the loop on the Reads of a stream; when the stream gives nothing more the
\* Read blocks (val "blocked"): readResponse sets no deadline
RECURSIVE readLoop(_, _)
readLoop(acc, stream) ==
    IF stream = <<>> THEN [done |-> FALSE, acc |-> acc, val |-> "blocked", text |-> <<>>]
    ELSE LET round == readRound(acc, Head(stream))
         IN  IF round.done THEN round ELSE readLoop(round.acc, Tail(stream))

\* TL1Transport.readResponse on what the socket will give
readResponse(hasConn, stream) ==
    IF ~hasConn THEN [done |-> TRUE, acc |-> <<>>, val |-> "notconn", text |-> <<>>]
    ELSE readLoop(<<>>, stream)

ReadInit ==
    /\ ProtocolInit
    /\ response \in [conn : BOOLEAN, stream : SeqsUpTo(ReadOutcomes, MaxReads)]
    /\ scanned = <<FALSE, Nil>>

\* Cmd reads the response
ReadResponse ==
    /\ scanned[1] = FALSE
    /\ scanned' = <<TRUE, readResponse(response.conn, response.stream)>>
    /\ UNCHANGED <<response, callerVars, orphans, calls, cancels, clientVars, transportVars,
                   socketVars, botVars>>

NextRead == ReadResponse

SpecRead == ReadInit /\ [][NextRead]_vars

\* ------------------------------------------------- transport and its socket
\* The transport with the sockets it opened and the peer at their other end.
\* Every method holds the transport lock from its first to its last step:
\* IsConnected, Reconnect and Close are one step each; Cmd, which Send runs on
\* its goroutine, is a step for the closed check, one for the liveness probe,
\* one for the dial, one for the write and one for each Read of the response,
\* and the peer may act in between.
protocolVars == <<callerVars, orphans, calls, cancels, clientVars, transportVars>>

\* What conn.Read on socket s returns now: bytes that wait are read first;
\* with none, the end of input or the error the peer left; with a peer that
\* is silent, nothing before the deadline.
ReadOutcome(s) ==
    IF ~sockets[s].open THEN "err"
    ELSE IF sockets[s].inbox # <<>> THEN "data"
    ELSE IF sockets[s].peer = "eof" THEN "eof"
    ELSE IF sockets[s].peer = "reset" THEN "err"
    ELSE "timeout"

\* isConnectionAlive on the outcome of its 1-byte Read: nil on a timeout and
\* also when the Read returned a byte (err == nil falls through to the last
\* "return nil"); an error otherwise
isConnectionAliveRead(outcome) ==
    IF outcome = "timeout" THEN "nil"
    ELSE IF outcome = "data" THEN "nil"
    ELSE "dead"

\* TL1Transport.isConnectionAlive on the current socket: what it returns, and
\* the sockets after it (a byte that was read is gone from the socket)
Probe ==
    IF tl1.conn = 0 THEN [val |-> "notconn", sockets |-> sockets]
    ELSE LET outcome == ReadOutcome(tl1.conn)
         IN  [val |-> isConnectionAliveRead(outcome),
              sockets |-> IF outcome = "data"
                          THEN [sockets EXCEPT ![tl1.conn].inbox = Tail(@)]
                          ELSE sockets]

\* the socket a successful dial returns: one that is not the current one
NewSocket ==
    CHOOSE s \in Sockets : s # tl1.conn /\ \A r \in Sockets : r # tl1.conn => s <= r

\* TL1Transport.connect, with the outcome d of net.DialTimeout, on the sockets
\* socks: on success conn is the new socket and closed is false
connect(socks, d) ==
    IF d = "ok"
    THEN [err |-> "nil",
          tl1 |-> [conn |-> NewSocket, closed |-> FALSE],
          sockets |-> [socks EXCEPT ![NewSocket] = FreshSocket]]
    ELSE [err |-> "dial", tl1 |-> tl1, sockets |-> socks]

\* conn.Write on socket s
WriteOutcomes(s) ==
    IF ~sockets[s].open THEN {"io"}
    ELSE IF sockets[s].peer = "up" THEN {"ok"}
    ELSE {"ok", "io"}

\* the method o returns v; nth tells a first call of o from a repeated one
Returned(o, v, text) ==
    [op |-> o, val |-> v, text |-> text, nth |-> IF ret.op = o THEN 2 ELSE 1]

\* Send(ctx, command) starts its goroutine, which calls Cmd once: the empty
\* command is refused, a closed transport gives ErrNotConnected.
CmdEnter(command) ==
    /\ call.pc = "none"
    /\ IF command = ""
       THEN /\ ret' = Returned("Send", "empty", <<>>)
            /\ call' = call
       ELSE IF tl1.closed
       THEN /\ ret' = Returned("Send", "notconn", <<>>)
            /\ call' = call
       ELSE /\ ret' = NoRet
            /\ call' = [NoCall EXCEPT !.pc = "probe"]
    /\ UNCHANGED <<tl1, sockets, protocolVars, response, scanned, botVars>>

CmdConnWriteRetrying ==
    /\ call.pc = "write"
    /\ \E w \in WriteOutcomes(tl1.conn) :
        IF w = "ok"
        THEN /\ call' = [call EXCEPT !.pc = "read", !.writes = @ + 1]
             /\ ret' = ret
        ELSE /\ call' = [call EXCEPT !.pc = IF call.writes < 2 THEN "probe" ELSE "none",
                                     !.writes = @ + 1]
             /\ ret' = IF call.writes < 2 THEN ret ELSE Returned("Send", "io", <<>>)
    /\ UNCHANGED <<tl1, sockets, protocolVars, response, scanned, botVars>>

\* Cmd, ensureConnection: the liveness probe.  A live socket is written to, a
\* dead one is replaced by a dial.
CmdProbe ==
    /\ call.pc = "probe"
    /\ sockets' = Probe.sockets
    /\ IF Probe.val = "nil"
       THEN /\ call' = [call EXCEPT !.pc = "write", !.probes = @ + 1]
            /\ ret' = ret
       ELSE IF Probe.val = "notconn"
       THEN /\ call' = NoCall
            /\ ret' = Returned("Send", "notconn", <<>>)
       ELSE /\ call' = [call EXCEPT !.pc = "connect", !.probes = @ + 1]
            /\ ret' = ret
    /\ UNCHANGED <<tl1, protocolVars, response, scanned, botVars>>

\* Cmd, ensureConnection: connect() after a failed probe.  The socket it
\* replaces is not closed.
CmdConnect ==
    /\ call.pc = "connect"
    /\ \E d \in DialOutcomes :
        LET c == connect(sockets, d)
        IN  /\ tl1' = c.tl1
            /\ sockets' = c.sockets
            /\ IF c.err = "nil"
               THEN /\ call' = [call EXCEPT !.pc = "write", !.dials = @ + 1]
                    /\ ret' = ret
               ELSE /\ call' = NoCall
                    /\ ret' = Returned("Send", "dial", <<>>)
    /\ UNCHANGED <<protocolVars, response, scanned, botVars>>

\* Cmd: conn.Write(command)
CmdConnWrite ==
    /\ call.pc = "write"
    /\ \E w \in WriteOutcomes(tl1.conn) :
        IF w = "ok"
        THEN /\ call' = [call EXCEPT !.pc = "read", !.writes = @ + 1]
             /\ ret' = ret
        ELSE /\ call' = NoCall
             /\ ret' = Returned("Send", "io", <<>>)
    /\ UNCHANGED <<tl1, sockets, protocolVars, response, scanned, botVars>>

\* Cmd, readResponse: one Read, which takes the bytes that wait on the socket
\* or finds its end; with neither it blocks.
CmdReadRound ==
    /\ call.pc = "read"
    /\ ReadOutcome(tl1.conn) # "timeout"
    /\ LET outcome == ReadOutcome(tl1.conn)
           r == IF outcome = "data" THEN Data(sockets[tl1.conn].inbox)
                ELSE IF outcome = "eof" THEN EOF
                ELSE ReadErr
           round == readRound(call.acc, r)
       IN  /\ sockets' = IF outcome = "data"
                         THEN [sockets EXCEPT ![tl1.conn].inbox = <<>>]
                         ELSE sockets
           /\ IF round.done
              THEN /\ call' = NoCall
                   /\ ret' = Returned("Send", round.val, round.text)
              ELSE /\ call' = [call EXCEPT !.acc = round.acc]
                   /\ ret' = ret
    /\ UNCHANGED <<tl1, protocolVars, response, scanned, botVars>>

TIsConnectedUnprobed ==
    /\ call.pc = "none"
    /\ ret' = Returned("IsConnected", IF tl1.conn = 0 THEN "false" ELSE "true", <<>>)
    /\ UNCHANGED <<tl1, sockets, call, protocolVars, response, scanned, botVars>>

\* TL1Transport.IsConnected
TIsConnected ==
    /\ call.pc = "none"
    /\ IF tl1.closed \/ tl1.conn = 0
       THEN /\ ret' = Returned("IsConnected", "false", <<>>)
            /\ sockets' = sockets
       ELSE /\ ret' = Returned("IsConnected",
                               IF Probe.val = "nil" THEN "true" ELSE "false", <<>>)
            /\ sockets' = Probe.sockets
    /\ UNCHANGED <<tl1, call, protocolVars, response, scanned, botVars>>

TReconnectLeavesOld ==
    /\ call.pc = "none"
    /\ \E d \in DialOutcomes :
        LET c == connect(sockets, d)
        IN  /\ tl1' = c.tl1
            /\ sockets' = c.sockets
            /\ ret' = Returned("Reconnect", c.err, <<>>)
    /\ UNCHANGED <<call, protocolVars, response, scanned, botVars>>

\* TL1Transport.Reconnect: closes the socket it has, if any, and connects
TReconnect ==
    /\ call.pc = "none"
    /\ \E d \in DialOutcomes :
        LET socks == IF tl1.conn # 0
                     THEN [sockets EXCEPT ![tl1.conn] = ClosedSocket]
                     ELSE sockets
            c == connect(socks, d)
        IN  /\ tl1' = c.tl1
            /\ sockets' = c.sockets
            /\ ret' = Returned("Reconnect", c.err, <<>>)
    /\ UNCHANGED <<call, protocolVars, response, scanned, botVars>>

TCloseKeepsConn ==
    /\ call.pc = "none"
    /\ tl1' = [tl1 EXCEPT !.closed = TRUE]
    /\ IF tl1.conn # 0
       THEN /\ sockets' = [sockets EXCEPT ![tl1.conn] = ClosedSocket]
            /\ ret' = Returned("Close", IF sockets[tl1.conn].open THEN "nil" ELSE "io", <<>>)
       ELSE /\ sockets' = sockets
            /\ ret' = Returned("Close", "nil", <<>>)
    /\ UNCHANGED <<call, protocolVars, response, scanned, botVars>>

\* TL1Transport.Close: marks the transport closed, closes the socket it has
\* (closing a socket that is closed already is an error) and forgets it
TClose ==
    /\ call.pc = "none"
    /\ tl1' = [conn |-> 0, closed |-> TRUE]
    /\ IF tl1.conn # 0
       THEN /\ sockets' = [sockets EXCEPT ![tl1.conn] = ClosedSocket]
            /\ ret' = Returned("Close", IF sockets[tl1.conn].open THEN "nil" ELSE "io", <<>>)
       ELSE /\ sockets' = sockets
            /\ ret' = Returned("Close", "nil", <<>>)
    /\ UNCHANGED <<call, protocolVars, response, scanned, botVars>>

\* the peer of the current socket is there and the socket is open
PeerUp == tl1.conn # 0 /\ sockets[tl1.conn].open /\ sockets[tl1.conn].peer = "up"

\* The server sends a byte: of the response to a command, or unasked.
PeerSend(b) ==
    /\ PeerUp
    /\ Len(sockets[tl1.conn].inbox) + Len(call.acc) < MaxPending
    /\ sockets' = [sockets EXCEPT ![tl1.conn].inbox = Append(@, b)]
    /\ UNCHANGED <<tl1, call, ret, protocolVars, response, scanned, botVars>>

\* The server closes the connection.
PeerClose ==
    /\ PeerUp
    /\ sockets' = [sockets EXCEPT ![tl1.conn].peer = "eof"]
    /\ UNCHANGED <<tl1, call, ret, protocolVars, response, scanned, botVars>>

\* The connection breaks: what waited to be read is lost.
PeerReset ==
    /\ PeerUp
    /\ sockets' = [sockets EXCEPT ![tl1.conn].peer = "reset", ![tl1.conn].inbox = <<>>]
    /\ UNCHANGED <<tl1, call, ret, protocolVars, response, scanned, botVars>>

NextTransport ==
    \/ \E command \in {"", "command"} : CmdEnter(command)
    \/ CmdProbe
    \/ CmdConnect
    \/ CmdConnWrite
    \/ CmdReadRound
    \/ TIsConnected
    \/ TReconnect
    \/ TClose
    \/ \E b \in Bytes : PeerSend(b)
    \/ PeerClose
    \/ PeerReset

SpecTransport == Init /\ [][NextTransport]_vars

\* ----------------------------------------------------------- session store
\* everything but the bot's own state
restVars == <<protocolVars, response, scanned, socketVars>>

\* time.Since(session.UpdatedAt) > 30*time.Minute
Expired(s) == s.age > SessionTimeout

\* SessionService.CreateSession, GetSession, UpdateSession and DeleteSession,
\* each as one call: the map they leave (and the session GetSession returns,
\* NoSession for nil).  GetSession removes the entry it finds expired.
CreateSession(ss, u) == [ss EXCEPT ![u] = NewSession]

GetSession(ss, u) ==
    IF ss[u] # NoSession /\ Expired(ss[u])
    THEN [sessions |-> [ss EXCEPT ![u] = NoSession], session |-> NoSession]
    ELSE [sessions |-> ss, session |-> ss[u]]

UpdateSession(ss, u, s) == [ss EXCEPT ![u] = [s EXCEPT !.age = 0]]

DeleteSession(ss, u) == [ss EXCEPT ![u] = NoSession]

\* sync.RWMutex: Lock waits for the writer and for the readers, RLock for the
\* writer
CanLock == smu.w = 0 /\ smu.r = {}
CanRLock == smu.w = 0

\* goroutine t holds the lock of the store, shared or exclusive
HoldsLock(t) == smu.w = t \/ t \in smu.r

\* goroutine t stands at an access to the sessions map: any access, or a write
AtMap(t) == HoldsLock(t) /\ threads[t].pc \in {"map", "expire"}
AtMapWrite(t) ==
    /\ HoldsLock(t)
    /\ \/ threads[t].pc = "expire"
       \/ threads[t].pc = "map" /\ threads[t].op # "GetSession"

\* Two goroutines at the map, one of them at a write: the accesses are not
\* ordered, and the Go runtime may stop the program ("concurrent map writes",
\* "concurrent map read and map write") or let the access through.
Unordered(t) ==
    \E t2 \in Threads \ {t} :
        /\ AtMap(t2)
        /\ AtMapWrite(t) \/ AtMapWrite(t2)

MapFaults(t) == IF Unordered(t) THEN BOOLEAN ELSE {FALSE}

\* A handler goroutine calls one of the four operations for a user.
SessCall(t) ==
    /\ ~crashed
    /\ threads[t].pc = "idle"
    /\ \E o \in {"CreateSession", "GetSession", "UpdateSession", "DeleteSession"}, u \in Users :
          threads' = [threads EXCEPT ![t] = [op |-> o, pc |-> "lock", user |-> u]]
    /\ UNCHANGED <<sessions, smu, crashed, reply, restVars>>

\* s.mu.RLock() in GetSession, s.mu.Lock() in the others
SessLock(t) ==
    /\ ~crashed
    /\ threads[t].pc = "lock"
    /\ IF threads[t].op = "GetSession"
       THEN /\ CanRLock
            /\ smu' = [smu EXCEPT !.r = @ \cup {t}]
       ELSE /\ CanLock
            /\ smu' = [smu EXCEPT !.w = t]
    /\ threads' = [threads EXCEPT ![t].pc = "map"]
    /\ UNCHANGED <<sessions, crashed, reply, restVars>>

\* the first access to the map: the insert of CreateSession, the replace of
\* UpdateSession, the delete of DeleteSession, the lookup of GetSession (which
\* goes on to remove the entry if it is expired)
SessMap(t) ==
    LET o == threads[t].op
        u == threads[t].user
    IN  /\ ~crashed
        /\ threads[t].pc = "map"
        /\ crashed' \in MapFaults(t)
        /\ sessions' =
              IF o = "CreateSession" THEN CreateSession(sessions, u)
              ELSE IF o = "UpdateSession"
              THEN UpdateSession(sessions, u,
                                 IF sessions[u] = NoSession THEN NewSession ELSE sessions[u])
              ELSE IF o = "DeleteSession" THEN DeleteSession(sessions, u)
              ELSE sessions
        /\ threads' = [threads EXCEPT ![t].pc =
              IF o = "GetSession" /\ sessions[u] # NoSession /\ Expired(sessions[u])
              THEN "expire" ELSE "unlock"]
        /\ UNCHANGED <<smu, reply, restVars>>

\* GetSession: delete(s.sessions, userID), still under the lock it took
SessExpire(t) ==
    /\ ~crashed
    /\ threads[t].pc = "expire"
    /\ crashed' \in MapFaults(t)
    /\ sessions' = DeleteSession(sessions, threads[t].user)
    /\ threads' = [threads EXCEPT ![t].pc = "unlock"]
    /\ UNCHANGED <<smu, reply, restVars>>

\* the deferred RUnlock or Unlock; the call returns
SessUnlock(t) ==
    /\ ~crashed
    /\ threads[t].pc = "unlock"
    /\ smu' = [w |-> IF smu.w = t THEN 0 ELSE smu.w, r |-> smu.r \ {t}]
    /\ threads' = [threads EXCEPT ![t] = IdleThread]
    /\ UNCHANGED <<sessions, crashed, reply, restVars>>

\* time passes for every session
Older(s) ==
    IF s # NoSession /\ s.age + ClockStep <= MaxAge THEN [s EXCEPT !.age = @ + ClockStep] ELSE s

Tick ==
    /\ ~crashed
    /\ sessions' = [u \in Users |-> Older(sessions[u])]
    /\ sessions' # sessions
    /\ UNCHANGED <<smu, threads, crashed, reply, restVars>>

\* The session store under the bot's handler goroutines.
NextSessions ==
    \/ \E t \in Threads : SessCall(t)
    \/ \E t \in Threads : SessLock(t)
    \/ \E t \in Threads : SessMap(t)
    \/ \E t \in Threads : SessExpire(t)
    \/ \E t \in Threads : SessUnlock(t)
    \/ Tick

SpecSessions == Init /\ [][NextSessions]_vars

\* ------------------------------------------------------------ conversation
\* texts are sequences of characters, callback data sequences of tokens
Digits == {"0", "1", "2", "3", "4", "5", "6", "7", "8", "9"}

\* strings.ReplaceAll(s, ch, "")
RECURSIVE ReplaceAll(_, _)
ReplaceAll(s, ch) ==
    IF s = <<>> THEN <<>>
    ELSE (IF Head(s) = ch THEN <<>> ELSE <<Head(s)>>) \o ReplaceAll(Tail(s), ch)

\* AuthenticationHandler.sanitizeCPF and isValidCPFFormat
sanitizeCPF(cpf) == TrimSpace(ReplaceAll(ReplaceAll(cpf, "."), "-"))

isValidCPFFormat(cpf) == Len(cpf) = CpfLength

Repeated(ch, n) == [i \in 1 .. n |-> ch]

\* NewUserService: the one authorized CPF
authorizedCPF == <<"1", "2", "3", "4", "5", "6", "7", "8", "9", "0", "1">>

\* UserService.ValidateTaxID: whether it returns a user
ValidateTaxID(taxID) == TrimSpace(taxID) = authorizedCPF

\* strconv.ParseInt(protocol, 10, 64): whether it returns no error (the texts
\* here are far below the range of int64)
ParseInt(s) ==
    LET body == IF s # <<>> /\ Head(s) \in {"+", "-"} THEN Tail(s) ELSE s
    IN  body # <<>> /\ \A i \in 1 .. Len(body) : body[i] \in Digits

\* strings.Split(data, ":")
RECURSIVE Split(_)
Split(s) ==
    IF \A i \in 1 .. Len(s) : s[i] # ":" THEN <<s>>
    ELSE LET k == CHOOSE i \in 1 .. Len(s) : s[i] = ":" /\ \A j \in 1 .. i - 1 : s[j] # ":"
         IN  <<SubSeq(s, 1, k - 1)>> \o Split(SubSeq(s, k + 1, Len(s)))

\* the texts a user sends: the authorized CPF with its punctuation, the same
\* between spaces, an unknown CPF (also a protocol number), a short number,
\* and words
Messages ==
    { <<"1", "2", "3", ".", "4", "5", "6", ".", "7", "8", "9", "-", "0", "1">>,
      <<"sp">> \o authorizedCPF \o <<"sp">>,
      Repeated("2", CpfLength),
      <<"4", "2">>,
      <<"h", "i">> }

\* the data of the buttons the bot sends, and other data a client can send
Callbacks ==
    { <<"main_menu", ":", "provision">>,
      <<"main_menu", ":", "exit">>,
      <<"main_menu", ":", "other">>,
      <<"confirm", ":", "yes">>,
      <<"confirm", ":", "no">>,
      <<"other", ":", "yes">>,
      <<"main_menu">> }

\* session.State = domain.StateIdle
Idle(s) == [s EXCEPT !.State = "idle", !.authed = FALSE]

\* What a handler does: the sessions it leaves and the last message it sends.
Done(ss, msg) == [sessions |-> ss, reply |-> msg]

\* MessageHandler.getOrCreateSession
getOrCreateSession(ss, u) ==
    LET got == GetSession(ss, u)
    IN  IF got.session = NoSession
        THEN [sessions |-> CreateSession(got.sessions, u), session |-> NewSession]
        ELSE got

\* MessageHandler.handleStart
handleStart(ss, u, s) ==
    Done(UpdateSession(ss, u, [s EXCEPT !.State = "waiting_cpf"]), "MSG_WELCOME")

\* AuthenticationHandler.HandleCPFInput, with authenticateUser
HandleCPFInput(ss, u, s, text) ==
    LET cpf == sanitizeCPF(text)
    IN  IF ~isValidCPFFormat(cpf) THEN Done(ss, "MSG_CPF_INVALID")
        ELSE IF ~ValidateTaxID(cpf)
        THEN Done(UpdateSession(ss, u, [s EXCEPT !.State = "waiting_cpf"]),
                  "MSG_CPF_UNAUTHORIZED")
        ELSE Done(UpdateSession(ss, u, [s EXCEPT !.State = "main_menu", !.authed = TRUE]),
                  "MSG_USER_GREETING")

\* ProvisioningHandler.HandleProtocolInput; erp is whether the ERP returns the
\* connection information of the protocol
HandleProtocolInput(ss, u, s, text, erp) ==
    IF ~ParseInt(TrimSpace(text)) THEN Done(ss, "MSG_PROTOCOL_INVALID")
    ELSE IF ~erp THEN Done(ss, "MSG_PROTOCOL_NOT_FOUND")
    ELSE Done(UpdateSession(ss, u, [s EXCEPT !.State = "confirm_data", !.info = TRUE]),
              "MSG_CONFIRM_DATA")

\* MessageHandler.handleMessage
handleMessage(ss, u, text, erp) ==
    LET got == getOrCreateSession(ss, u)
        s == got.session
    IN  IF s.State = "idle" THEN handleStart(got.sessions, u, s)
        ELSE IF s.State = "waiting_cpf" THEN HandleCPFInput(got.sessions, u, s, text)
        ELSE IF s.State = "waiting_protocol"
        THEN HandleProtocolInput(got.sessions, u, s, text, erp)
        ELSE handleStart(got.sessions, u, s)

\* MenuHandler.HandleMainMenuOption
HandleMainMenuOption(ss, u, s, option) ==
    IF option = <<"provision">>
    THEN Done(UpdateSession(ss, u, [s EXCEPT !.State = "waiting_protocol"]),
              "MSG_REQUEST_PROTOCOL")
    ELSE IF option = <<"exit">> THEN Done(UpdateSession(ss, u, Idle(s)), "MSG_EXIT_MESSAGE")
    ELSE Done(ss, "MSG_USER_GREETING")

\* ProvisioningHandler.executeProvisioning: ProvisionEquipment rejects a nil
\* ConnectionInfo, else the provisioning runs and succeeds (unm) or fails
executeProvisioning(ss, u, s, unm) ==
    IF s.info /\ unm
    THEN Done(UpdateSession(ss, u, Idle(s)), "MSG_PROVISIONING_SUCCESS")
    ELSE Done(UpdateSession(ss, u, Idle(s)), "MSG_PROVISIONING_FAILED")

\* ProvisioningHandler.HandleConfirmation
HandleConfirmation(ss, u, s, confirm, unm) ==
    IF confirm # <<"yes">>
    THEN Done(UpdateSession(ss, u, Idle(s)), "MSG_CONFIRMATION_DENIED")
    ELSE executeProvisioning(ss, u, s, unm)

\* MessageHandler.handleCallback; parts[1] of the source is parts[2] here, and
\* indexing it in data without a colon panics
handleCallback(ss, u, data, unm) ==
    LET got == GetSession(ss, u)
        parts == Split(data)
        action == parts[1]
    IN  IF got.session = NoSession
        THEN Done(CreateSession(got.sessions, u), "MSG_SESSION_EXPIRED")
        ELSE IF action \notin {<<"main_menu">>, <<"confirm">>} THEN Done(got.sessions, "nothing")
        ELSE IF Len(parts) < 2 THEN Done(got.sessions, "panic")
        ELSE IF action = <<"main_menu">>
        THEN HandleMainMenuOption(got.sessions, u, got.session, parts[2])
        ELSE HandleConfirmation(got.sessions, u, got.session, parts[2], unm)

\* "telegram.message.received": a text of user u is handled
MessageReceived(u) ==
    /\ ~crashed
    /\ \E text \in Messages, erp \in BOOLEAN :
          LET r == handleMessage(sessions, u, text, erp)
          IN  /\ sessions' = r.sessions
              /\ reply' = [reply EXCEPT ![u] = r.reply]
    /\ UNCHANGED <<smu, threads, crashed, restVars>>

\* "telegram.callback.received": a callback query of user u is handled
CallbackReceived(u) ==
    /\ ~crashed
    /\ \E data \in Callbacks, unm \in BOOLEAN :
          LET r == handleCallback(sessions, u, data, unm)
          IN  /\ sessions' = r.sessions
              /\ reply' = [reply EXCEPT ![u] = r.reply]
    /\ UNCHANGED <<smu, threads, crashed, restVars>>

\* The conversation: the updates of the users handled one after the other.
NextChat ==
    \/ \E u \in Users : MessageReceived(u)
    \/ \E u \in Users : CallbackReceived(u)
    \/ Tick

SpecChat == Init /\ [][NextChat]_vars

\* ------------------------------------------------------------------ claims
\* vocabulary of the claims, stated on the text and on the steps, not on the
\* client's own classification

\* the text case-insensitively contains "illegal session"
IllegalText(t) == \E i \in 1 .. Len(t) : t[i] \in {"ILL", "ill"}

\* Send returned to caller c a response carrying an illegal-session error
IllegalAnswer(c) ==
    /\ g[c].st = "done"
    /\ g[c].res.terr = "nil"
    /\ Contains(g[c].res.text, "EADD")
    /\ IllegalText(g[c].res.text)

\* Send returned to caller c a response carrying another server error
DeniedAnswer(c) ==
    /\ g[c].st = "done"
    /\ g[c].res.terr = "nil"
    /\ Contains(g[c].res.text, "EADD")
    /\ ~IllegalText(g[c].res.text)

\* caller c waits for the answer to the delete step of the provisioning sequence
AtDelete(c) == op[c] = "prov" /\ pos[c] = 1

\* caller c waits for the answer to a command of its operation
InOperation(c) == pc[c] = "op_wait" /\ op[c] \in {"prov", "info"}

CurrentCmd(c) == OpCommands(op[c])[pos[c]]

\* in this step the client hands a command to the transport (calls Send)
Hands(c) == g'[c] # g[c] /\ g'[c].st = "wait"

\* in this step the call of caller c returns err, sends nothing more and
\* leaves the flag as it is
ReturnsAtOnce(c, err) ==
    /\ pc'[c] = "idle"
    /\ result'[c] = err
    /\ g'[c] = NoG
    /\ connected' = connected
    /\ mtx' = mtx
    /\ UNCHANGED <<conn, closed>>

\* C1: an operation that fails with an illegal-session error makes execRetry
\* clear the authenticated flag; before the third attempt it goes on to the
\* next attempt, which runs the same operation again only after a reconnect
\* and LOGIN; the operation runs at most 3 times per call; a third such failure
\* ends the call with MaxRetriesExceeded and the flag cleared.
C1_Step ==
    \A c \in Callers :
        /\ (OpRecv(c) /\ InOperation(c) /\ ~AtDelete(c) /\ IllegalAnswer(c))
              => (pc'[c] = "clear" /\ op'[c] = op[c] /\ g'[c] = NoG)
        /\ (pc[c] = "clear" /\ pc'[c] # "clear")
              => /\ connected' = FALSE
                 /\ IF attempt[c] < 2
                    THEN /\ pc'[c] = "ensure"
                         /\ op'[c] = op[c]
                         /\ attempt'[c] = attempt[c] + 1
                    ELSE /\ pc'[c] = "idle"
                         /\ result'[c].kind = "max_retries"
                         /\ IllegalText(result'[c].text)

C1_State ==
    \A c \in Callers :
        /\ hist[c].runs <= 3
        /\ (pc[c] \in {"op_start", "op_wait"} /\ attempt[c] > 0) => hist[c].auth = "login"

\* C1: an illegal-session failure of the operation clears the flag and is retried
\* after reconnect and LOGIN, at most 3 runs, then MaxRetriesExceeded.
C1_IllegalSessionRetry == []C1_State /\ [][C1_Step]_vars

C1_Witness ==
    \E c \in Callers :
        /\ pc[c] = "idle"
        /\ result[c].kind = "max_retries"
        /\ IllegalText(result[c].text)
        /\ hist[c].runs = 3
        /\ ~connected

\* C2: an operation that fails with an error that is not an illegal-session
\* error (cancellation, transport error, other server error, format error)
\* makes execRetry return that error at once: no further command, reconnect or
\* LOGIN, no MaxRetriesExceeded, and the flag unchanged.
C2_Step ==
    \A c \in Callers :
        /\ (OpCancel(c) /\ ~AtDelete(c))
              => ReturnsAtOnce(c, Err("cancel", <<>>, CurrentCmd(c)))
        /\ (OpRecv(c) /\ ~AtDelete(c) /\ g[c].res.terr # "nil")
              => ReturnsAtOnce(c, Err(g[c].res.terr, <<>>, CurrentCmd(c)))
        /\ (OpRecv(c) /\ ~AtDelete(c) /\ DeniedAnswer(c))
              => ReturnsAtOnce(c, Err("server", <<"x">>, CurrentCmd(c)))
        /\ (OpRecv(c) /\ op[c] = "info" /\ g[c].res = Answer(RespOk))
              => ReturnsAtOnce(c, Err("format", <<>>, CurrentCmd(c)))

\* C2: any other failure of the operation is returned at once, flag unchanged.
C2_OtherErrorReturnsAtOnce == [][C2_Step]_vars

C2_Witness ==
    \E c \in Callers :
        /\ pc[c] = "idle"
        /\ result[c].kind = "server"
        /\ ~IllegalText(result[c].text)
        /\ hist[c].runs = 1
        /\ connected

\* C3: a failure of the ensure-connection step (Reconnect fails, or LOGIN fails
\* with an error that is not illegal-session) ends the call with that failure
\* at once: no further attempt, reconnect or LOGIN.
C3_Step ==
    \A c \in Callers :
        /\ (Reconnect(c) /\ pc'[c] # "login_wait")
              => (pc'[c] = "idle" /\ result'[c].kind = "io")
        /\ (LoginFailClose(c) /\ ~IllegalText(lastErr[c].text))
              => (pc'[c] = "idle" /\ result'[c] = lastErr[c])

\* C3: a failed ensure-connection step ends the call with that failure at once.
C3_EnsureFailureEndsCall == [][C3_Step]_vars

\* C4: whenever the client hands a command other than LOGIN or LOGOUT to the
\* transport, the authenticated flag is true and the transport is not closed.
C4_Step ==
    \A c \in Callers :
        (Hands(c) /\ g'[c].cmd \notin {LOGIN, LOGOUT}) => (connected /\ ~closed)

\* C4: operation commands are handed to the transport only while the flag is
\* true and the transport is not closed.
C4_SendOnlyWhenAuthenticated == [][C4_Step]_vars

\* C5: at most one command is in flight on the connection: between the write
\* of a command and the end of the read of its response no other command is
\* written, no liveness probe reads from the socket and no Reconnect or Close
\* replaces the socket; the goroutines of Sends that returned on cancellation
\* count like all others.
RECURSIVE Sum(_, _)
Sum(f, S) ==
    IF S = {} THEN 0
    ELSE LET k == CHOOSE x \in S : TRUE IN f[k] + Sum(f, S \ {k})

InFlight ==
    Cardinality({c \in Callers : g[c].st = "written"})
    + Sum(orphans, AllCmds \X {"written"})

\* a step of the transport that writes, probes, or replaces or closes the socket
TouchesSocket ==
    \/ \E c \in Callers :
          \/ CmdWrite(c)
          \/ EnsureIsConnected(c)
          \/ LogoutIsConnected(c)
          \/ Reconnect(c)
          \/ TransportClose(c)
          \/ LoginFailClose(c)
    \/ \E cmd \in AllCmds : OrphanWrite(cmd)

C5_Step == (InFlight > 0) => (~TouchesSocket /\ conn' = conn /\ closed' = closed)

\* C5: at most one command is in flight, and while one is, nothing else touches
\* the socket.
C5_OneCommandInFlight == [](InFlight <= 1) /\ [][C5_Step]_vars

\* a cancelled Send's goroutine is reading its response while the goroutines
\* of two other Sends wait for the transport lock
C5_Witness ==
    /\ \E cmd \in AllCmds : orphans[<<cmd, "written">>] = 1
    /\ \A c \in Callers : g[c].st = "wait"
    /\ InFlight = 1

\* C6: one run of the provisioning sequence issues DEL-ONU, ADD-ONU, the six
\* SET-WANSERVICE (UPORT=1..4, SSID=1, SSID=5) and ACT-LANPORT in this order,
\* each only after the goroutine of the previous command has delivered its
\* outcome; when ADD-ONU, a SET-WANSERVICE or ACT-LANPORT fails, nothing more
\* of that run is issued and the error returned names the failed command.
IsPrefix(s, t) == Len(s) <= Len(t) /\ \A i \in 1 .. Len(s) : s[i] = t[i]

C6_State ==
    \A c \in Callers : op[c] = "prov" => IsPrefix(hist[c].issued, ProvisioningCommands)

C6_Step ==
    \A c \in Callers :
        /\ (Hands(c) /\ op[c] = "prov" /\ pc[c] = "op_wait") => g[c].st = "done"
        /\ ((OpRecv(c) \/ OpCancel(c)) /\ op[c] = "prov" /\ ~AtDelete(c)
                /\ ~(OpRecv(c) /\ g[c].res = Answer(RespOk)))
              => /\ g'[c] = NoG
                 /\ pc'[c] = "idle" => result'[c].at = CurrentCmd(c)

\* C6: the provisioning commands are issued in the declared order, each after
\* the previous outcome was delivered, and a failing step ends the run.
C6_ProvisioningOrder == []C6_State /\ [][C6_Step]_vars

\* C7: a failure of the delete step never ends the run and is never returned:
\* ADD-ONU is issued next, and the call's result is that of the later steps.
C7_Step ==
    \A c \in Callers :
        /\ ((OpRecv(c) \/ OpCancel(c)) /\ AtDelete(c))
              => /\ pc'[c] = "op_wait"
                 /\ g'[c] = [cmd |-> AddOnuCommand, st |-> "wait", res |-> NoRes]
                 /\ result'[c] = result[c]
        /\ (OpRecv(c) /\ op[c] = "prov" /\ CurrentCmd(c) = ActivateLanPortCommand
                /\ g[c].res = Answer(RespOk))
              => (pc'[c] = "idle" /\ result'[c] = Nil)

C7_State == \A c \in Callers : result[c].at # DeleteOnuCommand

\* C7: a failure of the delete step is never returned and ADD-ONU always follows.
C7_DeleteFailureSwallowed == []C7_State /\ [][C7_Step]_vars

\* the delete step failed and the call still returned success after all nine commands
C7_Witness ==
    \E c \in Callers :
        /\ pc[c] = "idle"
        /\ result[c] = Nil
        /\ hist[c].delFailed
        /\ hist[c].issued = ProvisioningCommands

\* C8: an illegal-session answer to any command of the provisioning sequence,
\* DEL-ONU included, with attempts left, makes the client stop the run and
\* clear the flag (then re-authenticate and start again from the delete step),
\* instead of sending the next command on the invalid session.
C8_Step ==
    \A c \in Callers :
        (OpRecv(c) /\ op[c] = "prov" /\ IllegalAnswer(c) /\ attempt[c] < 2)
            => (pc'[c] = "clear" /\ g'[c] = NoG)

\* C8: an illegal-session answer to any provisioning command, DEL-ONU included,
\* stops the run and clears the flag.
C8_IllegalSessionRestartsSequence == [][C8_Step]_vars

\* C9: OnuProvisioning with a configuration in which a required field is empty
\* fails with the invalid-configuration error before anything happens on the
\* session: nothing is sent, no reconnect or LOGIN, flag and transport unchanged.
MissingField(config) == \E f \in FieldNames : config[f] = ""

C9_Step ==
    \A c \in Callers, config \in Configs :
        (StartProvisioning(c, config) /\ MissingField(config))
            => /\ pc'[c] = "idle"
               /\ result'[c].kind = "config"
               /\ UNCHANGED <<g, orphans, clientVars, transportVars>>

\* C9: a configuration with an empty required field is refused before any
\* session activity.
C9_InvalidConfigBeforeSession == [][C9_Step]_vars

\* only the last field checked is empty, and the call was refused
C9_Witness ==
    \E c \in Callers :
        /\ pc[c] = "idle"
        /\ result[c] = Err("config", <<>>, <<"PPPoEPass", "">>)
        /\ g[c] = NoG

\* C10: a response with an occurrence of EADD=<message> whose message (the
\* rest of its line) is non-empty after trimming makes sendCommand fail with a
\* server error carrying that trimmed message; any other response is a success.
Message(i) ==
    LET nls == {k \in (i + 1) .. Len(response) : response[k] = "nl"}
        e == IF nls = {} THEN Len(response)
             ELSE (CHOOSE k \in nls : \A j \in nls : k <= j) - 1
    IN  TrimSpace(SubSeq(response, i + 1, e))

Occurrences == {i \in 1 .. Len(response) : response[i] = "EADD" /\ Message(i) # <<>>}

\* C10: sendCommand fails with the trimmed message exactly when the response has
\* an EADD= occurrence with a non-empty trimmed message.
C10_ErrorMarker ==
    scanned[1] =>
        IF Occurrences # {}
        THEN scanned[2].kind = "server" /\ \E i \in Occurrences : scanned[2].text = Message(i)
        ELSE scanned[2] = Nil

\* C11: once the deadline of a call has passed, the call returns, even when
\* the server never answers a command (LOGIN and LOGOUT of the
\* ensure-connection step included).
C11_DeadlineEndsCall == \A c \in Callers : ctxDone[c] ~> (pc[c] = "idle")

\* C12: a cancellation that fires during an attempt of execRetry, in the
\* operation's command or in the LOGIN of the ensure-connection step, ends the
\* call with the cancellation error: no further attempt, no MaxRetriesExceeded.
C12_Step ==
    \A c \in Callers :
        /\ (OpCancel(c) /\ ~AtDelete(c))
              => (pc'[c] = "idle" /\ result'[c].kind = "cancel")
        /\ (LoginFailClose(c) /\ lastErr[c].kind = "cancel")
              => (pc'[c] = "idle" /\ result'[c].kind = "cancel")

\* C12: a timeout during any one attempt ends the whole retrying call.
C12_CancellationEndsCall == [][C12_Step]_vars

\* C13, as stated: once the transport was closed it stays closed, whatever is
\* called afterwards, Reconnect included.
C13_ClosedForever == [][closed => closed']_vars

C13_State ==
    closed => /\ conn = "nil"
              /\ IsConnected = {FALSE}
              /\ \A o \in CmdWriteOutcomes :
                    o.terr = "notconn" /\ o.conn = conn /\ o.closed = closed

C13_Step ==
    /\ \A c \in Callers :
          /\ (pc[c] \in {"tclose", "lf_close"} /\ pc'[c] # pc[c]) => closed'
          /\ (closed /\ g[c].st = "wait" /\ g'[c].st = "done")
                => g'[c].res = TErr("notconn")
    /\ (closed /\ ~closed')
          => \E c \in Callers :
                pc[c] = "reconnect" /\ pc'[c] = "login_wait" /\ conn' = "open"

\* C13, amended: Close marks the transport closed; while it is closed every
\* Send fails with NotConnected and IsConnected is false; it stays closed until
\* a Reconnect succeeds in dialling, which reopens it.
C13_ClosedUntilReconnect == []C13_State /\ [][C13_Step]_vars

\* another caller's Close closed the transport while a command of an operation
\* waited to be written, and that Send failed with NotConnected
C13_Witness ==
    /\ closed
    /\ \E c \in Callers :
          /\ pc[c] = "op_wait"
          /\ g[c].st = "done"
          /\ g[c].res = TErr("notconn")

\* C14: Logout on a transport that reports itself disconnected sends no
\* command and returns success, leaving client, transport and goroutines as
\* they were, however often it is called; on a transport that is closed or has
\* no live socket it never sends.
C14_Step ==
    \A c \in Callers :
        /\ (LogoutIsConnected(c) /\ op[c] = "logout" /\ ~Hands(c))
              => /\ pc'[c] = "idle"
                 /\ result'[c] = Nil
                 /\ UNCHANGED <<g, orphans, clientVars, transportVars>>
        /\ (LogoutIsConnected(c) /\ op[c] # "logout" /\ ~Hands(c))
              => /\ lastErr'[c] = lastErr[c]
                 /\ UNCHANGED <<g, orphans, clientVars, transportVars>>
        /\ (LogoutIsConnected(c) /\ (closed \/ conn # "open")) => ~Hands(c)

\* C14: Logout when already disconnected is a no-op success.
C14_LogoutWhenDisconnected == [][C14_Step]_vars

\* Logout was called twice in a row on a transport reporting disconnected
C14_Witness ==
    \E c \in Callers : pc[c] = "idle" /\ result[c] = Nil /\ hist[c].noop = 2

\* in this step the Send that caller c waits in returns
SendReturns(c) ==
    /\ g[c].st # "none"
    /\ g'[c] # g[c]
    /\ ~(g'[c].cmd = g[c].cmd /\ g'[c].st \in {"written", "done"})

\* C15, as stated: when the underlying send has completed before the context
\* is done, Send returns its result, not the cancellation error.
C15_Step0 ==
    \A c \in Callers :
        /\ (pc[c] = "login_wait" /\ g[c].st = "done" /\ SendReturns(c))
              => lastErr'[c].kind # "cancel"
        /\ (pc[c] = "op_wait" /\ g[c].st = "done" /\ SendReturns(c) /\ pc'[c] = "idle")
              => result'[c].kind # "cancel"

C15_FirstWins == [][C15_Step0]_vars

C15_State == \A cmd \in AllCmds : orphans[<<cmd, "blocked">>] = 0

C15_Step ==
    \A c \in Callers :
        /\ SendReturns(c)
              => \/ g[c].st = "done"
                 \/ ctxDone[c] /\ pc[c] \in {"op_wait", "login_wait"}
        /\ (SendReturns(c) /\ ~ctxDone[c])
              => /\ orphans' = orphans
                 /\ pc[c] = "login_wait" => lastErr'[c] = Wrap(sendCommand(g[c].res), LOGIN)
                 /\ (pc[c] = "op_wait" /\ pc'[c] = "idle" /\ ~AtDelete(c))
                       => result'[c].kind \in {sendCommand(g[c].res).kind, "format"}
        /\ (SendReturns(c) /\ g[c].st # "done")
              => /\ orphans' = [orphans EXCEPT ![<<g[c].cmd, g[c].st>>] = @ + 1]
                 /\ pc[c] = "login_wait" => lastErr'[c].kind = "cancel"
                 /\ (pc[c] = "op_wait" /\ pc'[c] = "idle") => result'[c].kind = "cancel"

\* C15, amended: Send returns the result of the underlying send only once it
\* has completed, and a cancellation error only once the context is done; with
\* the context not done it returns the result, with the send not completed the
\* cancellation error, and with both either one.  On cancellation the
\* goroutine is not stopped: it goes on to write and read, and delivering its
\* result never blocks it.
C15_CancellableSend == []C15_State /\ [][C15_Step]_vars

\* a Send returned on cancellation before its goroutine wrote the command, and
\* the goroutine has since written it and waits for the response
C15_Witness ==
    /\ \E cmd \in AllCmds : orphans[<<cmd, "written">>] = 1
    /\ \A c \in Callers : g[c].st = "none"
    /\ cancels = 1

\* the table is 8 header lines, at least one data line and 2 footer lines
Enveloped(t) == t.header = HeaderLines /\ ~t.blank /\ t.data >= 1 /\ t.footer = 2

\* C16: decoding a response of 8 header lines, at least one data line and 2
\* footer lines whose first data line has at least 13 fields yields the record
\* of the first 13 fields of that line in order, whatever the field values,
\* empty first or last fields included.
C16_PositionalDecoding ==
    (scanned[1] /\ Enveloped(response) /\ Len(response.first) >= RequiredColumns)
        => scanned[2] = [kind |-> "ok", items |-> SubSeq(response.first, 1, RequiredColumns)]

\* the lines of the table that hold something other than white space
NonEmptyLines(t) ==
    Cardinality({i \in 1 .. Len(TableLines(t)) :
                    \E k \in 1 .. Len(TableLines(t)[i]) : TableLines(t)[i][k] # 0})

Undersized(t) ==
    \/ NonEmptyLines(t) <= HeaderLines + 2
    \/ Enveloped(t) /\ Len(t.first) < RequiredColumns

\* C17: decoding an undersized response (at most 10 non-empty lines, or a
\* first data line of fewer than 13 fields) returns a format or
\* insufficient-data error, never a record and never a crash.
C17_UndersizedIsFormatError ==
    (scanned[1] /\ Undersized(response)) => scanned[2].kind \in {"insufficient", "columns"}

\* a line of exactly 12 tab-separated fields whose first field is not OLTID
ValidOnuLine(line) == Len(line) = OnuColumns /\ TrimSpace(line[1]) # <<"OLTID">>

\* the record of a line: its fields in order, each trimmed
Summary(line) == [i \in 1 .. Len(line) |-> TrimSpace(line[i])]

\* the case-insensitive filter of the claims, on the fields 4 and 5 of a line
Wanted(line, filter) ==
    \/ filter = <<>>
    \/ \E i \in {4, 5} : \E k \in 1 .. Len(line[i]) :
          /\ line[i][k] \in {"ILL", "ill"}
          /\ filter[1] \in {"ILL", "ill"}

\* the records of the valid lines that the filter wants, in input order
RECURSIVE Summaries(_, _)
Summaries(lines, filter) ==
    IF lines = <<>> THEN <<>>
    ELSE (IF ValidOnuLine(Head(lines)) /\ Wanted(Head(lines), filter)
          THEN <<Summary(Head(lines))>> ELSE <<>>)
         \o Summaries(Tail(lines), filter)

\* C18: without a filter, ONU-list decoding returns, in input order, one
\* record (fields in order, each trimmed) for every line of exactly 12 fields
\* whose first field is not OLTID and nothing for any other line, and never an
\* error.
C18_OnuListDecoding ==
    (scanned[1] /\ response.filter = <<>>)
        => scanned[2] = [kind |-> "nil", onus |-> Summaries(response.lines, <<>>)]

\* C19: with a non-empty filter, ONU-list decoding keeps a valid 12-field line
\* iff the filter, compared case-insensitively, occurs in its name or
\* description (without a filter it keeps every valid line: the case of C18).
C19_OnuListFilter ==
    (scanned[1] /\ response.filter # <<>>)
        => scanned[2] = [kind |-> "nil", onus |-> Summaries(response.lines, response.filter)]

\* C20: whenever ensureConnection returns success the authenticated flag is
\* true, on each of its three paths: flag already set; transport reported
\* disconnected and reconnectAndLogin succeeded; transport connected, closed,
\* and reconnectAndLogin succeeded.
C20_Step ==
    \A c \in Callers : (pc[c] # "op_start" /\ pc'[c] = "op_start") => connected'

\* C20: ensureConnection marks the session authenticated on success.
C20_EnsureSuccessSetsFlag == [][C20_Step]_vars

\* the steps of ensureConnection when it found the transport connected
ForcedReconnect == <<"LOGOUT", "close", "dial", "LOGIN">>

\* caller c is inside ensureConnection, between its IsConnected and its return
InEnsure(c) ==
    /\ op[c] \in {"prov", "info"}
    /\ pc[c] \in {"isconn", "lo_isconn", "lo_wait", "tclose", "reconnect", "login_wait",
                  "lf_close"}

\* C21, as stated: with the flag false and the transport reporting connected,
\* ensureConnection has sent LOGOUT, closed the transport, dialled and sent
\* LOGIN, in this order, when the operation starts.
C21_ForcedReconnectOrder ==
    \A c \in Callers :
        (pc[c] = "op_start" /\ branch[c] = "second") => hist[c].ens = ForcedReconnect

C21_State ==
    \A c \in Callers :
        /\ (pc[c] = "op_start" /\ branch[c] = "second")
              => hist[c].ens \in {ForcedReconnect, Tail(ForcedReconnect)}
        /\ (InEnsure(c) /\ branch[c] = "second")
              => \/ IsPrefix(hist[c].ens, ForcedReconnect)
                 \/ IsPrefix(hist[c].ens, Tail(ForcedReconnect))
        /\ InEnsure(c) => g[c].cmd \in {NoCmd, LOGIN, LOGOUT}

C21_Step ==
    \A c \in Callers :
        /\ (LogoutRecv(c) /\ InEnsure(c))
              => (pc'[c] = "tclose" /\ lastErr'[c] = lastErr[c])
        /\ (InEnsure(c) /\ pc'[c] = "op_start")
              => /\ pc[c] = "login_wait"
                 /\ g[c].st = "done"
                 /\ sendCommand(g[c].res) = Nil
        /\ (Hands(c) /\ g'[c].cmd \notin {LOGIN, LOGOUT}) => pc[c] \in {"op_start", "op_wait"}

\* C21, amended: with the flag false and the transport reporting connected,
\* ensureConnection calls Logout (which sends LOGOUT unless the transport no
\* longer reports connected; its outcome is ignored), closes the transport,
\* dials and sends LOGIN, in this order; no command of the operation is sent
\* before, and the first one only after that LOGIN succeeded.
C21_ForcedReconnect == []C21_State /\ [][C21_Step]_vars

\* the operation is about to start after LOGOUT, close, dial and LOGIN
C21_Witness ==
    \E c \in Callers :
        pc[c] = "op_start" /\ branch[c] = "second" /\ hist[c].ens = ForcedReconnect

\* C24: after an operation ended with a cancellation error, the next
\* operation of the client starts only after the connection was closed and
\* rebuilt and LOGIN was sent again: it never reuses the connection as it is.
C24_ReconnectAfterCancel ==
    \A c \in Callers :
        (pc[c] = "op_start" /\ hist[c].afterCancel /\ hist[c].runs = 0)
            => /\ hist[c].auth = "login"
               /\ \E i \in 1 .. Len(hist[c].ens) : hist[c].ens[i] = "dial"

\* caller c is between Lock and Unlock of the client mutex: in ensureConnection
\* after it found the flag false, or in Close
InCritical(c) ==
    \/ pc[c] \in {"isconn", "tclose", "reconnect", "login_wait", "lf_close"}
    \/ pc[c] \in {"lo_isconn", "lo_wait"} /\ op[c] # "logout"

C25_State ==
    /\ \A c \in Callers : InCritical(c) => mtx = c
    /\ Cardinality({c \in Callers : InCritical(c)}) <= 1

C25_Step ==
    /\ (connected' # connected)
          => \E c \in Callers :
                /\ pc'[c] # pc[c]
                /\ mtx \in {0, c}
                /\ mtx' \in {0, c}
    /\ \A c \in Callers :
          (pc[c] \in {"ensure", "clear", "close_lock"} /\ pc'[c] # pc[c]) => mtx = 0

Stops(stream) ==
    {i \in 1 .. Len(stream) :
        \/ stream[i].kind \in {"eof", "err"}
        \/ /\ TrimSpace(stream[i].chunk) # <<>>
           /\ TrimSpace(stream[i].chunk)[Len(TrimSpace(stream[i].chunk))] = ";"}

FirstStop(stream) == CHOOSE i \in Stops(stream) : \A j \in Stops(stream) : i <= j

\* the chunks of the first n Reads, one after the other
RECURSIVE Accumulated(_, _)
Accumulated(stream, n) ==
    IF n = 0 THEN <<>> ELSE Accumulated(stream, n - 1) \o stream[n].chunk

\* C30: the read phase of Send accumulates the chunks up to and including the
\* first chunk whose trimmed text ends with ";", or up to the end of input,
\* and returns the accumulated text; it fails with InvalidResponse iff
\* nothing was accumulated, and with the read error and no text on any other
\* read error; until one of these it keeps reading.
C30_ReadPhase ==
    (scanned[1] /\ response.conn)
        => LET stream == response.stream
               out == scanned[2]
           IN  IF Stops(stream) = {} THEN ~out.done
               ELSE LET n == FirstStop(stream)
                        text == Accumulated(stream, n)
                    IN  /\ out.done
                        /\ IF stream[n].kind = "err"
                           THEN out.val = "io" /\ out.text = <<>>
                           ELSE /\ (out.val = "invalid") <=> (text = <<>>)
                                /\ out.val \in {"invalid", "nil"}
                                /\ out.text = text

\* a response that came in two chunks, the second one ending with ";" and
\* white space, was returned whole
C30_Witness ==
    /\ scanned[1]
    /\ response.conn
    /\ response.stream = <<Data(<<"x", "x">>), Data(<<";", "sp">>)>>
    /\ scanned[2].val = "nil"
    /\ scanned[2].text = <<"x", "x", ";", "sp">>

\* a liveness probe runs in this step: the one of IsConnected, or the one of
\* the connection check of Cmd
Probes ==
    \/ TIsConnected /\ ~tl1.closed /\ tl1.conn # 0
    \/ CmdProbe /\ tl1.conn # 0

\* the probe of this step reports the connection alive
ReportsAlive ==
    \/ TIsConnected /\ ret'.val = "true"
    \/ CmdProbe /\ call'.pc = "write"

\* C22: the liveness probe reports the connection alive iff its 1-byte read
\* ends in a timeout; a read that returns a data byte, the end of input or any
\* other error is reported as dead.
C22_AliveIffTimeout ==
    [][Probes => (ReportsAlive <=> ReadOutcome(tl1.conn) = "timeout")]_vars

\* C23: a liveness probe, of IsConnected or of the connection check of Send,
\* takes no byte from the socket: the bytes the next read of a response gets
\* are the same with and without the probe.
C23_ProbeConsumesNothing ==
    [][Probes => (\A s \in Sockets : sockets'[s].inbox = sockets[s].inbox)]_vars

C26_State == call.probes <= 1 /\ call.dials <= 1 /\ call.writes <= 1

C26_Step ==
    /\ (CmdProbe /\ Probe.val = "dead") => (call'.pc = "connect" /\ call.dials = 0)
    /\ (call.pc = "connect" /\ call' # call)
          => \/ call'.pc = "write" /\ call'.dials = 1 /\ call'.writes = 0
             \/ /\ call' = NoCall
                /\ ret' = Returned("Send", "dial", <<>>)
                /\ call.writes = 0
                /\ sockets' = sockets
    /\ (call.pc # "none" /\ tl1' # tl1) => (call.pc = "connect" /\ call.dials = 0)
    /\ (call.pc = "write" /\ call' # call)
          => \/ call'.pc = "read" /\ call'.writes = 1
             \/ call' = NoCall /\ ret' = Returned("Send", "io", <<>>)
    /\ (call.pc = "read" /\ call' # call) => call'.pc \in {"read", "none"}

\* C26: within one Send the transport never retries: a failed liveness probe
\* is followed by exactly one dial, a failed dial ends the Send without a
\* write, and the command is written at most once.
C26_NoRetryInSend == []C26_State /\ [][C26_Step]_vars

\* a Send whose probe failed dialled once, wrote once and reads the response
C26_Witness ==
    call.pc = "read" /\ call.probes = 1 /\ call.dials = 1 /\ call.writes = 1

\* the current socket is open and its peer is there or left bytes to read
Live ==
    /\ tl1.conn # 0
    /\ sockets[tl1.conn].open
    /\ sockets[tl1.conn].inbox # <<>> \/ sockets[tl1.conn].peer = "up"

C27_Step ==
    TIsConnected
        => /\ ret'.op = "IsConnected"
           /\ (ret'.val = "true") <=> (~tl1.closed /\ Live)
           /\ ret'.val \in {"true", "false"}
           /\ ret.op = "Close" => ret'.val = "false"
           /\ (ret.op = "Reconnect" /\ ret.val # "nil") => ret'.val = "false"

\* C27: IsConnected returns true iff the transport is not closed and the
\* liveness probe on its current socket succeeds; it returns false after
\* Close and after a Reconnect that failed.
C27_IsConnected == [][C27_Step]_vars

\* IsConnected returned false on a transport that is not marked closed and
\* whose socket a failed Reconnect has closed
C27_Witness ==
    /\ ret.op = "IsConnected"
    /\ ret.val = "false"
    /\ ~tl1.closed
    /\ tl1.conn # 0
    /\ ~sockets[tl1.conn].open

C28_State == call.pc = "none" => ENABLED TReconnect

C28_Step ==
    TReconnect
        => /\ ret'.op = "Reconnect"
           /\ ret'.val \in {"nil", "dial"}
           /\ tl1.conn # 0 => sockets'[tl1.conn] = ClosedSocket
           /\ ret'.val = "nil"
                 => /\ tl1'.conn \notin {0, tl1.conn}
                    /\ ~tl1'.closed
                    /\ sockets'[tl1'.conn] = FreshSocket
           /\ ret'.val = "dial" => tl1' = tl1

\* C28: Reconnect can be called in every state of the transport and fails
\* only when the dial fails; it closes the socket the transport has, if any,
\* and dials; after a successful Reconnect the transport is open on the new
\* socket and the old socket is closed.
C28_Reconnect == []C28_State /\ [][C28_Step]_vars

\* a second Reconnect in a row succeeded and the transport is on its new
\* socket, every other socket closed
C28_Witness ==
    /\ ret.op = "Reconnect"
    /\ ret.val = "nil"
    /\ ret.nth = 2
    /\ tl1.conn # 0
    /\ sockets[tl1.conn].open
    /\ \A s \in Sockets \ {tl1.conn} : sockets[s] = ClosedSocket

C29_State == tl1.closed => tl1.conn = 0

C29_Step ==
    /\ TClose => tl1' = [conn |-> 0, closed |-> TRUE]
    /\ (TClose /\ tl1.closed)
          => /\ ret'.val = "nil"
             /\ UNCHANGED <<tl1, sockets, call>>

\* C29: Close of the transport is idempotent: on a transport that is closed
\* already it returns success and leaves the transport as it is, closed and
\* without a socket.
C29_CloseIdempotent == []C29_State /\ [][C29_Step]_vars

\* Close was called twice in a row and the second call returned success
C29_Witness ==
    /\ ret.op = "Close"
    /\ ret.nth = 2
    /\ ret.val = "nil"
    /\ tl1 = [conn |-> 0, closed |-> TRUE]

C31_State == connected => ~closed

C31_Step ==
    /\ (~closed /\ closed')
          => /\ ~connected
             /\ \E c \in Callers : mtx = c /\ pc[c] \in {"tclose", "lf_close"}
    /\ (~connected /\ connected')
          => \E c \in Callers :
                /\ mtx = c
                /\ pc[c] = "login_wait"
                /\ g[c] = [cmd |-> LOGIN, st |-> "done", res |-> g[c].res]
                /\ sendCommand(g[c].res) = Nil
                /\ ~closed'

WritesOperationCommand ==
    \/ \E c \in Callers :
          /\ g[c].cmd \notin {NoCmd, LOGIN, LOGOUT}
          /\ g[c].st = "wait"
          /\ g'[c].st = "written"
    \/ \E k \in AllCmds \ {LOGIN, LOGOUT} :
          /\ OrphanWrite(k)
          /\ orphans'[<<k, "written">>] = orphans[<<k, "written">>] + 1

\* C32: a command of an operation is written only on a connection on which
\* the server has accepted a LOGIN, never as the first command of a freshly
\* dialled connection, the transport's own re-dial inside Send included.
C32_WrittenAfterLogin == [][WritesOperationCommand => loggedIn']_vars

\* caller d recovers its session: an operation of this call has run, the flag
\* was cleared on its illegal-session error, and d is back in ensureConnection
\* with the client mutex
Recovering(d) ==
    /\ InEnsure(d)
    /\ mtx = d
    /\ hist[d].runs > 0

\* in this step the goroutine of caller c's Send leaves Cmd's entry: it has
\* written the command of c's operation, or Cmd has returned an error
CmdEntered(c) ==
    /\ pc[c] = "op_wait"
    /\ g[c].st = "wait"
    /\ g'[c].st # "wait"

C33_NotConnected ==
    \A c, d \in Callers :
        (c # d /\ Recovering(d) /\ CmdEntered(c)) => g'[c].res # TErr("notconn")

C33_BeforeLogin ==
    \A c, d \in Callers :
        (c # d /\ Recovering(d) /\ CmdEntered(c) /\ pc[d] = "login_wait" /\ g[d].st = "wait")
            => g'[c].st # "written"

\* C33: while one caller's operation is in progress, the session recovery of
\* another caller (close, reconnect, LOGIN under the client mutex after an
\* illegal-session error) never makes a command of the first caller fail with
\* NotConnected, and never lets it be written after the re-dial and before the
\* LOGIN.
C33_RecoveryIsolated == [][C33_NotConnected /\ C33_BeforeLogin]_vars

\* in this step the goroutine of a Send of command k that had returned on
\* cancellation, with the command not yet written, writes it to the socket
WrittenAfterCancel(k) ==
    /\ orphans'[<<k, "wait">>] < orphans[<<k, "wait">>]
    /\ orphans'[<<k, "written">>] > orphans[<<k, "written">>]

\* C34: a command whose Send returned a cancellation error before the command
\* was written is never written to the wire afterwards.
C34_CancelledNeverWritten == [][\A k \in AllCmds : ~WrittenAfterCancel(k)]_vars

\* in this step reconnectAndLogin of caller c returns the error of its LOGIN
LoginFailureReturns(c) == pc[c] = "lf_close" /\ pc'[c] # "lf_close"

C35_State ==
    \A c \in Callers :
        (InEnsure(c) \/ pc[c] = "ensure") => g[c].cmd \in {NoCmd, LOGIN, LOGOUT}

C35_Step ==
    /\ \A c \in Callers :
          LoginFailureReturns(c)
              => /\ closed' /\ conn' = "nil"
                 /\ ~connected'
                 /\ g'[c] = NoG
                 /\ hist'[c].runs = hist[c].runs
                 /\ \/ pc'[c] = "ensure" /\ attempt'[c] = attempt[c] + 1
                    \/ pc'[c] = "idle" /\ result'[c].kind = "max_retries"
    /\ \A c \in Callers :
          (pc[c] # "op_start" /\ pc'[c] = "op_start")
              => \/ pc[c] = "ensure" /\ connected
                 \/ pc[c] = "login_wait" /\ g[c].st = "done" /\ sendCommand(g[c].res) = Nil
    /\ \A c \in Callers :
          (closed /\ Hands(c))
              => /\ pc[c] = "reconnect"
                 /\ g'[c].cmd = LOGIN
                 /\ conn' = "open" /\ ~closed'
    /\ (closed /\ ~closed') => \E c \in Callers : Hands(c)
    /\ closed => \A c \in Callers : g'[c].st = "written" => g[c].st = "written"

\* C35: when the LOGIN after a reconnect fails, reconnectAndLogin leaves the
\* transport closed and the flag false, the attempt ends without the operation
\* having run, and the next command handed to the transport, in the next
\* attempt or the next call, is a LOGIN right after a fresh dial.
C35_LoginFailure == []C35_State /\ [][C35_Step]_vars

\* after a failed LOGIN, the next attempt has dialled again and written LOGIN
C35_Witness ==
    \E c \in Callers :
        /\ pc[c] = "login_wait"
        /\ hist[c].auth = "failed"
        /\ attempt[c] > 0
        /\ g[c] = [cmd |-> LOGIN, st |-> "written", res |-> NoRes]

\* in this step the Close of caller c returns to the application
CloseReturns(c) == op[c] = "close" /\ pc[c] # "idle" /\ pc'[c] = "idle"

C36_Step ==
    \A c \in Callers :
        CloseReturns(c)
            => /\ ~connected'
               /\ closed' /\ conn' = "nil"
               /\ mtx = c /\ mtx' = 0
               /\ lastErr[c] # Nil
                     => /\ result'[c].kind \in {lastErr[c].kind, "joined"}
                        /\ result'[c].text = lastErr[c].text
                        /\ result'[c].at = LOGOUT
               /\ conn = "shut" => result'[c].kind \in {"close", "joined"}
               /\ result'[c].kind = "joined" => lastErr[c] # Nil
               /\ result'[c] = Nil => lastErr[c] = Nil

\* C36: when the client's Close returns, the flag is false and the transport
\* is closed, whether or not the LOGOUT it attempted succeeded; an error of the
\* LOGOUT or of the socket close is in the returned error and does not keep
\* the transport from being closed.
C36_CloseAlwaysCloses == [][C36_Step]_vars

\* a Close has returned the error of its LOGOUT, with the transport closed
C36_Witness ==
    \E c \in Callers :
        /\ pc[c] = "idle"
        /\ hist[c].ens = <<"Close">>
        /\ result[c] # Nil
        /\ result[c].at = LOGOUT
        /\ closed
        /\ ~connected

\* caller c is about to take the client mutex (Close, ensureConnection, the
\* flag clear of execRetry)
WaitsMtx(c) == pc[c] \in {"close_lock", "ensure", "clear"}

\* the thread of caller c is about to take the transport lock (IsConnected,
\* Close, Reconnect), or the goroutine of its Send is (Cmd)
WaitsMu(c) ==
    \/ pc[c] \in {"isconn", "lo_isconn", "tclose", "reconnect", "lf_close"}
    \/ g[c].st = "wait"

\* the goroutines that hold the transport lock, inside Cmd
MuHolders ==
    Cardinality({c \in Callers : g[c].st = "written"})
        + Sum([k \in AllCmds |-> orphans[<<k, "written">>]], AllCmds)

C37_State ==
    /\ \A c \in Callers : WaitsMtx(c) => (mtx # c /\ g[c] = NoG)
    /\ \A c \in Callers : (mtx = c) => ~WaitsMtx(c)
    /\ \A c \in Callers :
          pc[c] \in {"isconn", "lo_isconn", "tclose", "reconnect", "lf_close"}
              => g[c].st # "written"
    /\ mu <=> (MuHolders = 1)
    /\ MuHolders <= 1

C37_Step ==
    /\ \A c \in Callers : (mtx # c /\ mtx' = c) => (mtx = 0 /\ WaitsMtx(c))
    /\ (~mu /\ mu') => MuHolders = 0

WritesMap(t) == AtMapWrite(t) /\ threads'[t].pc = "unlock"

\* two goroutines are at the map together, at least one of them to write
Racing == \E t \in Threads : AtMap(t) /\ Unordered(t)

C38_State == ~Racing /\ ~crashed

C38_Step == \A t \in Threads : WritesMap(t) => smu.w = t

\* C38: every write to the sessions map, the removal of an expired session by
\* GetSession included, happens under the exclusive lock, so that no two
\* concurrent calls of CreateSession, GetSession, UpdateSession and
\* DeleteSession write, or read and write, the map at the same time.
C38_ExclusiveWrites == []C38_State /\ [][C38_Step]_vars

\* in this step the session of user u enters the waiting-protocol state
EntersProtocol(u) ==
    /\ sessions'[u].State = "waiting_protocol"
    /\ sessions[u].State # "waiting_protocol"

\* in this step a callback of user u starts the provisioning
StartsProvisioning(u) ==
    /\ CallbackReceived(u)
    /\ reply'[u] \in {"MSG_PROVISIONING_SUCCESS", "MSG_PROVISIONING_FAILED"}

\* C39: a session enters the waiting-protocol state, or starts the equipment
\* provisioning, only if it passed the CPF validation since it was last idle
\* or created.
C39_AuthenticatedOnly ==
    [][\A u \in Users : (EntersProtocol(u) \/ StartsProvisioning(u)) => sessions[u].authed]_vars
====
